---------------------------- MODULE Spec2Model ----------------------------
(***************************************************************************)
(* State-machine model of the deidentify package (aliengiraffe/deidentify):*)
(* the Deidentifier with its secret key, its two-level mapping store and   *)
(* its reader/writer lock, the deterministic generators, the column type   *)
(* inference and the public operations built on deidentifyValue.           *)
(*                                                                         *)
(* Strings are TLA+ strings; a character is a string of length one.        *)
(* crypto/hmac and regexp are libraries, not code of the package: the      *)
(* keyed hash is modelled by a fixed deterministic 32-byte digest function *)
(* of (key, message), the regular expressions by a backtracking matcher    *)
(* with Go's leftmost-first semantics.                                     *)
(***************************************************************************)
EXTENDS Integers, Sequences, FiniteSets, TLC

(***************************************************************************)
(* Bounds of the model.                                                    *)
(***************************************************************************)
\* number of goroutines that call into one Deidentifier concurrently
NumThreads == 2

\* number of calls of exported methods the goroutines make altogether
MaxCalls == 2

(***************************************************************************)
(* Strings and characters.                                                 *)
(***************************************************************************)
None == "<none>"

\* F of the value v, with v computed once
Bind(v, F(_)) == CHOOSE r \in {F(x) : x \in {v}} : TRUE

Min(a, b) == IF a < b THEN a ELSE b

Max(a, b) == IF a < b THEN b ELSE a

CharAt(s, i) == SubSeq(s, i, i)

Digits == "0123456789"

Lower == "abcdefghijklmnopqrstuvwxyz"

Upper == "ABCDEFGHIJKLMNOPQRSTUVWXYZ"

\* the printable ASCII characters from 32 (space) to 95 (_) and from 97 (a) to 126 (~)
AsciiLow == " !\"#$%&'()*+,-./" \o Digits \o ":;<=>?@" \o Upper \o "[\\]^_"

AsciiHigh == Lower \o "{|}~"

CharsOf(s) == {CharAt(s, i) : i \in 1..Len(s)}

IndexIn(s, c) == CHOOSE i \in 1..Len(s) : CharAt(s, i) = c

\* the byte value of an ASCII character
CodeOf ==
  [c \in CharsOf(AsciiLow) \cup CharsOf(AsciiHigh) |->
     IF c \in CharsOf(AsciiLow) THEN 31 + IndexIn(AsciiLow, c) ELSE 96 + IndexIn(AsciiHigh, c)]

\* every other character counts as 127
Code(c) == IF c \in DOMAIN CodeOf THEN CodeOf[c] ELSE 127

DigitSet == CharsOf(Digits)

LowerSet == CharsOf(Lower)

UpperSet == CharsOf(Upper)

LetterSet == LowerSet \cup UpperSet

SpaceSet == {" ", "\t", "\n", "\r"}

\* strings.TrimSpace
RECURSIVE TrimLeft(_)
TrimLeft(s) ==
  IF Len(s) > 0 /\ CharAt(s, 1) \in SpaceSet THEN TrimLeft(SubSeq(s, 2, Len(s))) ELSE s

RECURSIVE TrimRight(_)
TrimRight(s) ==
  IF Len(s) > 0 /\ CharAt(s, Len(s)) \in SpaceSet
  THEN TrimRight(SubSeq(s, 1, Len(s) - 1))
  ELSE s

TrimSpace(s) == TrimRight(TrimLeft(s))

\* strconv.Itoa and the %d verb (the generators format naturals only)
Itoa(n) == ToString(n)

\* the %0<width>d verb
RECURSIVE ZeroPad(_, _)
ZeroPad(s, width) == IF Len(s) < width THEN ZeroPad("0" \o s, width) ELSE s

HexDigits == "0123456789abcdef"

HexByte(b) == CharAt(HexDigits, (b \div 16) + 1) \o CharAt(HexDigits, (b % 16) + 1)

\* encoding/hex EncodeToString
RECURSIVE HexEncode(_)
HexEncode(bytes) ==
  IF bytes = <<>> THEN "" ELSE HexByte(Head(bytes)) \o HexEncode(Tail(bytes))

(***************************************************************************)
(* DataType (deidentify.go, const block).                                  *)
(***************************************************************************)
TypeName == 0

TypeEmail == 1

TypePhone == 2

TypeSSN == 3

TypeCreditCard == 4

TypeAddress == 5

TypeGeneric == 6

DataTypes == TypeName..TypeGeneric

(***************************************************************************)
(* The lookup tables of the generators.                                    *)
(***************************************************************************)
firstNameOptions ==
  <<
    "Alex", "Jordan", "Taylor", "Casey", "Morgan", "Riley", "Avery", "Quinn", "Sage", "Blake",
    "Jamie", "Dakota", "Charlie", "Hayden", "Emerson", "Rowan", "Parker", "Cameron", "Finley",
    "Drew", "River", "Skyler", "Peyton", "Reese", "Kendall", "Logan", "Robin", "Jesse",
    "Harley", "Dallas", "Remy", "Scout", "Shawn", "Devon", "Kelly", "Adrian", "Jackie",
    "Angel", "Leslie", "Justice", "Sydney", "Elliott", "Addison", "Kai", "Marley", "Shannon",
    "Ali", "Zion", "Phoenix", "Eden", "Harper", "Sawyer", "Micah", "Jules", "Spencer",
    "Jayden", "Ashton", "Luca", "Kerry", "Avery", "Erin", "Shane", "Marlow", "Austin", "Rory",
    "Lennon", "Jaden", "Jude", "Nova", "Noel", "Kennedy", "Shay", "Laine", "Kris", "Frankie",
    "Haven", "Gray", "Amari", "Sasha", "Lennox", "Tatum", "Izzy", "Winter", "Cassidy", "Pat",
    "Keegan", "Lyric", "Blair", "Briar", "Ellis", "Oakley", "Shiloh", "Salem", "Sutton",
    "Arden", "Cypress", "Lee", "Finley", "Wren", "Bellamy", "Billie", "Armani", "Jaime",
    "Storm", "Alva", "Rio", "Marlo", "Milan", "Sidney", "Royal", "Ronnie", "Sky", "Jett",
    "Remi", "Kit", "Perry", "Lake", "Sol", "Oak", "Mica"
  >>

lastNameOptions ==
  <<
    "Smith", "Johnson", "Williams", "Brown", "Jones", "Garcia", "Miller", "Davis", "Rodriguez",
    "Martinez", "Hernandez", "Lopez", "Gonzalez", "Wilson", "Anderson", "Thomas", "Taylor",
    "Moore", "Jackson", "Martin", "Lee", "Perez", "Thompson", "White", "Harris", "Sanchez",
    "Clark", "Ramirez", "Lewis", "Robinson", "Walker", "Young", "Allen", "King", "Wright",
    "Scott", "Torres", "Nguyen", "Hill", "Flores", "Green", "Adams", "Nelson", "Baker", "Hall",
    "Rivera", "Campbell", "Mitchell", "Carter", "Roberts", "Gomez", "Phillips", "Evans",
    "Turner", "Diaz", "Parker", "Cruz", "Edwards", "Collins", "Reyes", "Stewart", "Morris",
    "Morales", "Murphy", "Cook", "Rogers", "Gutierrez", "Ortiz", "Morgan", "Cooper",
    "Peterson", "Bailey", "Reed", "Kelly", "Howard", "Ramos", "Kim", "Cox", "Ward",
    "Richardson", "Watson", "Brooks", "Chavez", "Wood", "James", "Bennett", "Gray", "Mendoza",
    "Ruiz", "Hughes", "Price", "Alvarez", "Castillo", "Sanders", "Patel", "Myers", "Long",
    "Ross", "Foster", "Jimenez", "Powell", "Jenkins", "Perry", "Russell", "Sullivan", "Bell",
    "Coleman", "Butler", "Henderson", "Barnes", "Gonzales", "Fisher", "Vasquez", "Simmons",
    "Romero", "Jordan", "Patterson", "Alexander", "Hamilton", "Graham", "Reynolds", "Griffin",
    "Wallace", "Moreno", "West", "Cole", "Hayes", "Bryant", "Herrera", "Gibson"
  >>

emailDomainOptions ==
  <<
    "example.com", "testmail.org", "sample.net", "demo.co", "placeholder.io", "test.com",
    "acme.org", "mail.net", "noreply.co", "company.io", "secure.net", "private.email",
    "mock.com", "temporary.org", "proxy.net", "anon.co", "redacted.io", "pseudo.com",
    "example.org", "example.net", "example.io", "test.org", "test.net", "test.io",
    "sample.org", "sample.io", "demo.org", "demo.net", "placeholder.org", "placeholder.net",
    "acme.com", "acme.net", "acme.io", "mail.com", "mail.org", "mail.io", "noreply.com",
    "noreply.org", "noreply.net", "company.com", "company.org", "company.net", "secure.com",
    "secure.org", "secure.io", "private.com", "private.org", "private.net", "mock.org",
    "mock.net", "mock.io", "temporary.com", "temporary.net", "temporary.io", "proxy.com",
    "proxy.org", "proxy.io", "anon.com", "anon.org", "anon.net", "redacted.com",
    "redacted.org", "redacted.net", "pseudo.org", "pseudo.net", "pseudo.io", "dummy.com",
    "dummy.org", "dummy.net", "dummy.io", "invalid.com", "invalid.org", "invalid.net",
    "invalid.io", "nowhere.com", "nowhere.org", "nowhere.net", "nowhere.io", "null.com",
    "null.org", "null.net", "null.io", "void.com", "void.org", "void.net", "void.io",
    "empty.com", "empty.org", "empty.net", "empty.io", "masked.com", "masked.org",
    "masked.net", "masked.io", "hidden.com", "hidden.org", "hidden.net", "hidden.io",
    "anonymous.com", "anonymous.org", "anonymous.net", "anonymous.io", "privacy.com",
    "privacy.org", "privacy.net"
  >>

emailUsernameOptions ==
  <<
    "user", "test", "demo", "sample", "client", "member", "account", "profile", "person",
    "contact", "info", "support", "admin", "help", "service", "mail", "email", "inbox",
    "webmaster", "customer", "guest", "anonymous", "user123", "tester", "demouser", "testuser",
    "newuser", "tempuser", "randomuser", "sampleuser", "clientuser", "memberuser",
    "accountuser", "profileuser", "personuser", "contactuser", "infouser", "supportuser",
    "adminuser", "helpuser", "serviceuser", "mailuser", "emailuser", "inboxuser",
    "webmasteruser", "customeruser", "guestuser", "anonymoususer", "example", "noreply",
    "donotreply", "no-reply", "feedback", "hello", "hi", "notification", "alerts", "system",
    "automate", "bot", "robot", "data", "testdata", "sampledata", "mockdata", "fakedata",
    "placeholder", "temp", "temporary", "disposable", "dummy", "null", "void", "none", "empty",
    "blank", "zero", "nil", "undefined", "default", "standard", "generic", "common", "normal",
    "typical", "regular", "routine", "ordinary", "usual", "customary", "general", "universal",
    "global", "worldwide", "international", "national", "regional", "local", "personal",
    "individual", "private", "public", "shared", "common", "mutual", "joint", "collective",
    "combined", "merged", "unified"
  >>

streetNameOptions ==
  <<
    "Main St", "Oak Ave", "Pine Rd", "Elm Way", "Park Blvd", "First St", "Second Ave",
    "Third Rd", "Fourth St", "Fifth Ave", "Maple Dr", "Cedar Ln", "Walnut St", "Cherry Ave",
    "Washington Blvd", "Lincoln Rd", "Jefferson St", "Adams Ave", "Madison Dr", "Jackson Blvd",
    "Highland Ave", "Valley Rd", "Forest Dr", "Meadow Ln", "River St", "Lake Ave",
    "Sunset Blvd", "Sunrise Dr", "Hill Rd", "Mountain View Ave", "Spring St", "Summer Rd",
    "Autumn Ave", "Winter Dr", "North St", "South Ave", "East Rd", "West Blvd", "Central Dr",
    "Union St", "Division Ave", "Grove Rd", "Spruce St", "Willow Ave", "Hickory Dr",
    "Birch Ln", "Sycamore St", "Poplar Ave", "Aspen Rd", "Cypress Dr", "Lakeview St",
    "Hillside Ave", "Summit Rd", "Ridge Dr", "Highland Park Ave", "Crescent St", "Woodland Rd",
    "Meadowlark Ln", "Colonial Dr", "Heritage Ave", "Liberty St", "Freedom Rd",
    "Independence Ave", "Victory Dr", "Patriot St", "Pioneer Rd", "Frontier Ave",
    "Homestead Dr", "Prairie St", "Plains Rd", "Desert Ave", "Ocean Dr", "Beach St",
    "Shore Rd", "Bay Ave", "Harbor Dr", "Port St", "Dock Rd", "Marina Ave", "Lighthouse Dr",
    "Beacon St", "College Rd", "University Ave", "Campus Dr", "School St", "Academy Rd",
    "Church Ave", "Chapel Dr", "Temple St", "Seminary Rd", "Market Ave", "Commerce Dr",
    "Business St", "Industry Rd", "Corporate Ave", "Office Dr", "Plaza St", "Center Rd",
    "Town Square", "Village Green", "Garden St", "Orchard Rd", "Farm Ave", "Ranch Dr",
    "Estate St", "Manor Rd", "Castle Ave", "Palace Dr", "Royal St", "Crown Rd",
    "Rue de la Paix", "Avenue des Champs-Élysées", "Via Roma", "Calle Mayor", "Königstraße",
    "Hauptstraße", "High Street", "Baker Street", "Oxford Street", "Strand", "Gran Vía",
    "Passeig de Gràcia", "Chang'an Avenue", "Nanjing Road", "Orchard Road", "Shinjuku Dori",
    "Ginza Dori", "Sukhumvit Road", "Plaza Mayor", "Via Veneto", "Friedrichstraße",
    "Bond Street", "Broadway", "Champs-Élysées", "Sheikh Zayed Road", "Las Ramblas",
    "Nevsky Prospekt", "Puerta del Sol", "Andrássy Avenue", "Khao San Road"
  >>

(***************************************************************************)
(* The state of the program.                                               *)
(***************************************************************************)
VARIABLES
  secretKey,      \* Deidentifier.secretKey, fixed by NewDeidentifier
  mappingTables,  \* Deidentifier.mappingTables: column name -> original -> replacement
  mutex,          \* Deidentifier.mutex: its holders: readers, writer (one at most)
  calls,          \* the number of calls of exported methods made so far
  pc,             \* per goroutine: the statement it is to execute next
  call,           \* per goroutine: the exported method it is in, its arguments and its locals
  frame,          \* per goroutine: the parameters and locals of its deidentifyValue call
  ret,            \* per goroutine: what its last call returned
  retLog,         \* history: <<columnName, value, result, dataType>> of the deidentifyValue calls that returned
  genLog          \* history: <<value, dataType, result, whether the store was empty>> of the generations

(***************************************************************************)
(* The keyed hash.  HMAC-SHA256 is modelled by a deterministic digest of   *)
(* 32 bytes computed from the key and the message: a polynomial checksum   *)
(* of the two strings, spread over the 32 positions.                       *)
(***************************************************************************)
RECURSIVE Checksum(_, _)
Checksum(s, h) ==
  IF Len(s) = 0 THEN h ELSE Checksum(SubSeq(s, 2, Len(s)), (h * 131 + Code(CharAt(s, 1))) % 65521)

HmacSha256(key, message) ==
  LET h == Checksum(message, Checksum(key, 7))
  IN  [i \in 1..32 |-> ((h + 1) * (i * i + 3 * i + 17) + (h \div 7) * i + (h \div 251)) % 256]

\* a hash that also takes in whether the store holds a mapping
deterministicHashOfStore(input) ==
  HmacSha256(secretKey, IF mappingTables = <<>> THEN input ELSE input \o "+")

\* deterministicHash creates a consistent hash using HMAC
deterministicHash(input) == HmacSha256(secretKey, input)

\* hashToIndex: the bytes as a big-endian number, reduced modulo max
RECURSIVE BigMod(_, _, _)
BigMod(hashBytes, max, acc) ==
  IF hashBytes = <<>> THEN acc
  ELSE BigMod(Tail(hashBytes), max, (acc * 256 + Head(hashBytes)) % max)

hashToIndex(hashBytes, max) ==
  IF Len(hashBytes) = 0 \/ max <= 0 THEN 0 ELSE BigMod(hashBytes, max, 0)

\* hash[lo:hi] of Go (0-based, hi excluded)
Slice(hash, lo, hi) == SubSeq(hash, lo + 1, hi)

(***************************************************************************)
(* The generators.                                                         *)
(***************************************************************************)
generateGeneric(original) ==
  LET hash == deterministicHash(original) IN "DATA_" \o HexEncode(Slice(hash, 0, 8))

generateName(original) ==
  LET hash == deterministicHash(original)
      firstIdx == hashToIndex(Slice(hash, 0, 8), Len(firstNameOptions))
      lastIdx == hashToIndex(Slice(hash, 8, 16), Len(lastNameOptions))
  IN  firstNameOptions[firstIdx + 1] \o " " \o lastNameOptions[lastIdx + 1]

generateEmail(original) ==
  LET hash == deterministicHash(original)
      userIdx == hashToIndex(Slice(hash, 0, 8), Len(emailUsernameOptions))
      domainIdx == hashToIndex(Slice(hash, 8, 16), Len(emailDomainOptions))
      suffix == hashToIndex(Slice(hash, 16, 24), 9999)
  IN  emailUsernameOptions[userIdx + 1] \o Itoa(suffix) \o "@" \o emailDomainOptions[domainIdx + 1]

generateAddress(original) ==
  LET hash == deterministicHash(original)
      number == 1 + hashToIndex(Slice(hash, 0, 8), 9999)
      streetIdx == hashToIndex(Slice(hash, 8, 16), Len(streetNameOptions))
  IN  Itoa(number) \o " " \o streetNameOptions[streetIdx + 1]

\* generateSSN with the verbs %d-%d-%d: the segments are not padded with zeros
generateSSNUnpadded(original) ==
  LET hash == deterministicHash(original)
      area0 == 100 + hashToIndex(Slice(hash, 0, 8), 565)
      area == IF area0 = 666 THEN 667 ELSE area0
      group == 1 + hashToIndex(Slice(hash, 8, 16), 99)
      serial == 1 + hashToIndex(Slice(hash, 16, 24), 9999)
  IN  Itoa(area) \o "-" \o Itoa(group) \o "-" \o Itoa(serial)

generateSSN(original) ==
  LET hash == deterministicHash(original)
      area0 == 100 + hashToIndex(Slice(hash, 0, 8), 565)
      area == IF area0 = 666 THEN 667 ELSE area0
      group == 1 + hashToIndex(Slice(hash, 8, 16), 99)
      serial == 1 + hashToIndex(Slice(hash, 16, 24), 9999)
  IN  ZeroPad(Itoa(area), 3) \o "-" \o ZeroPad(Itoa(group), 2) \o "-" \o ZeroPad(Itoa(serial), 4)

\* strconv.Atoi of one character, its error ignored: 0 for a non-digit
DigitValue(c) == IF c \in DigitSet THEN Code(c) - 48 ELSE 0

\* calculateLuhnCheckDigit: the loop from the last character to the first
RECURSIVE LuhnSum(_, _, _)
LuhnSum(cardNumber, i, alternate) ==
  IF i < 1 THEN 0
  ELSE LET d == DigitValue(CharAt(cardNumber, i))
           doubled == d * 2
           digit == IF alternate
                    THEN (IF doubled > 9 THEN (doubled \div 10) + (doubled % 10) ELSE doubled)
                    ELSE d
       IN  digit + LuhnSum(cardNumber, i - 1, ~alternate)

\* calculateLuhnCheckDigit with alternate := false: the doubling starts one digit late
calculateLuhnCheckDigitShifted(cardNumber) ==
  (10 - (LuhnSum(cardNumber, Len(cardNumber), FALSE) % 10)) % 10

calculateLuhnCheckDigit(cardNumber) ==
  (10 - (LuhnSum(cardNumber, Len(cardNumber), TRUE) % 10)) % 10

RECURSIVE CardDigits(_, _)
CardDigits(hash, i) ==
  IF i >= 11 THEN ""
  ELSE Itoa(hashToIndex(Slice(hash, i * 2, i * 2 + 2), 10)) \o CardDigits(hash, i + 1)

\* the formatting loop: a space before every character whose index is a multiple of 4
RECURSIVE GroupsOfFour(_, _)
GroupsOfFour(cardNumber, i) ==
  IF i > Len(cardNumber) THEN ""
  ELSE (IF i > 1 /\ (i - 1) % 4 = 0 THEN " " ELSE "") \o CharAt(cardNumber, i)
       \o GroupsOfFour(cardNumber, i + 1)

generateCreditCard(original) ==
  LET hash == deterministicHash(original)
      cardNumber == "4000" \o CardDigits(hash, 0)
      checkDigit == calculateLuhnCheckDigit(cardNumber)
  IN  GroupsOfFour(cardNumber \o Itoa(checkDigit), 1)

(***************************************************************************)
(* Regular expressions (package regexp).  An expression is a tree of       *)
(* records; Match gives, for a start position, the end positions of the    *)
(* matches in the order in which a backtracking matcher prefers them, so   *)
(* that the first one is the leftmost-first match regexp reports.  A       *)
(* position p stands before the character p; a match from b to e covers    *)
(* the characters b..e-1.                                                  *)
(***************************************************************************)
\* [...] and \d, \s, \w
Set(cs) == [t |-> "set", cs |-> cs]

\* [^...]
NotSet(cs) == [t |-> "nset", cs |-> cs]

Cat(rs) == [t |-> "cat", rs |-> rs]

Alt(rs) == [t |-> "alt", rs |-> rs]

\* r{min,max}, greedy; max = -1 for no upper limit
Rep(r, min, max) == [t |-> "rep", r |-> r, min |-> min, max |-> max, lazy |-> FALSE]

\* r{min,max}?, which prefers fewer rounds
RepLazy(r, min, max) == [t |-> "rep", r |-> r, min |-> min, max |-> max, lazy |-> TRUE]

Opt(r) == Rep(r, 0, 1)

Star(r) == Rep(r, 0, -1)

Plus(r) == Rep(r, 1, -1)

\* the capturing group number n
Grp(n, r) == [t |-> "grp", n |-> n, r |-> r]

\* ^
Bol == [t |-> "bol"]

\* \b
WordBoundary == [t |-> "wb"]

WordSet == DigitSet \cup LetterSet \cup {"_"}

\* \s of RE2: [\t\n\f\r ]
ReSpace == Set({" ", "\t", "\n", "\f", "\r"})

ReDigit == Set(DigitSet)

ReWord == Set(WordSet)

ToLowerChar(c) == IF c \in UpperSet THEN CharAt(Lower, IndexIn(Upper, c)) ELSE c

ToUpperChar(c) == IF c \in LowerSet THEN CharAt(Upper, IndexIn(Lower, c)) ELSE c

\* an alternation of literal strings, the first before the second before ...; with fold
\* the letters match in either case, as under the flag (?i)
Lits(strs, fold) == [t |-> "lits", strs |-> strs, fold |-> fold]

\* a literal string
Lit(str) == Lits(<<str>>, FALSE)

\* a literal string under the flag (?i)
LitI(str) == Lits(<<str>>, TRUE)

AltLit(strs) == Lits(strs, FALSE)

AltLitI(strs) == Lits(strs, TRUE)

\* whether the literal w stands at position i of s
LitAt(w, fold, s, i) ==
  /\ i + Len(w) - 1 <= Len(s)
  /\ \A j \in 1..Len(w) :
       IF fold THEN ToLowerChar(CharAt(s, i + j - 1)) = ToLowerChar(CharAt(w, j))
       ELSE CharAt(s, i + j - 1) = CharAt(w, j)

\* the captures: group number -> <<start, end>>, <<0, 0>> while the group has not matched
MaxGroups == 7

NoCaps == [n \in 1..MaxGroups |-> <<0, 0>>]

\* <<k, j>> stands for the match mss[k][j]: a before b
Before(a, b) == a[1] < b[1] \/ (a[1] = b[1] /\ a[2] < b[2])

\* The match sequences mss[1], mss[2], ... one after the other, keeping of the matches
\* that end at the same position the first one only (what follows a match depends on
\* where it ends alone).
Flatten(mss0) ==
  Bind(mss0 \o <<>>, LAMBDA mss :
    Bind(UNION {{<<k, j>> : j \in 1..Len(mss[k])} : k \in 1..Len(mss)}, LAMBDA items :
      Bind({a \in items : \A b \in items : Before(b, a) => mss[b[1]][b[2]].e # mss[a[1]][a[2]].e},
           LAMBDA kept :
             [p \in 1..Cardinality(kept) |->
                Bind(CHOOSE x \in kept : Cardinality({b \in kept : Before(b, x)}) + 1 = p,
                     LAMBDA a : mss[a[1]][a[2]])] \o <<>>)))

IsWordAt(s, p) == p >= 1 /\ p <= Len(s) /\ CharAt(s, p) \in WordSet

\* whether the character ch is in the class r (a "set" or an "nset")
InClass(r, ch) == IF r.t = "set" THEN ch \in r.cs ELSE ch \notin r.cs

\* the number of characters from position i on that lie in the class r, at most limit
\* (-1: no limit)
RECURSIVE RunLength(_, _, _, _, _)
RunLength(s, i, r, limit, n) ==
  IF (limit # -1 /\ n >= limit) \/ i + n > Len(s) \/ ~InClass(r, CharAt(s, i + n)) THEN n
  ELSE RunLength(s, i, r, limit, n + 1)

\* the alternatives re.strs that stand at position i: their lengths, in the order of the
\* first alternative of each length
MatchLits(re, s, i, c) ==
  Bind({k \in 1..Len(re.strs) : LitAt(re.strs[k], re.fold, s, i)}, LAMBDA ks :
    Bind({<<Len(re.strs[k]), k>> : k \in {k \in ks : \A k2 \in ks : Len(re.strs[k2]) = Len(re.strs[k]) => k <= k2}},
         LAMBDA firsts :
           [p \in 1..Cardinality(firsts) |->
              Bind(CHOOSE x \in firsts : Cardinality({y \in firsts : y[2] < x[2]}) + 1 = p,
                   LAMBDA x : [e |-> i + x[1], c |-> c])] \o <<>>))

RECURSIVE Match(_, _, _, _)
RECURSIVE MatchCat(_, _, _, _, _)
RECURSIVE MatchRep(_, _, _, _, _)

Match(re, s, i, c) ==
  CASE re.t = "set" ->
         IF i <= Len(s) /\ CharAt(s, i) \in re.cs THEN <<[e |-> i + 1, c |-> c]>> ELSE <<>>
    [] re.t = "nset" ->
         IF i <= Len(s) /\ CharAt(s, i) \notin re.cs THEN <<[e |-> i + 1, c |-> c]>> ELSE <<>>
    [] re.t = "bol" -> IF i = 1 THEN <<[e |-> i, c |-> c]>> ELSE <<>>
    [] re.t = "wb" ->
         IF IsWordAt(s, i - 1) # IsWordAt(s, i) THEN <<[e |-> i, c |-> c]>> ELSE <<>>
    [] re.t = "lits" -> MatchLits(re, s, i, c)
    [] re.t = "cat" -> MatchCat(re.rs, 1, s, i, c)
    [] re.t = "alt" ->
         \* rs[1] before rs[2] before ...
         Flatten([k \in 1..Len(re.rs) |-> Match(re.rs[k], s, i, c)])
    [] re.t = "rep" ->
         IF re.r.t \in {"set", "nset"}
         THEN \* a repeated class: the longest run first (the shortest first if lazy)
              Bind(RunLength(s, i, re.r, re.max, 0), LAMBDA n :
                IF n < re.min THEN <<>>
                ELSE [k \in 1..(n - re.min + 1) |->
                        [e |-> IF re.lazy THEN i + re.min + k - 1 ELSE i + n - k + 1,
                         c |-> c]] \o <<>>)
         ELSE MatchRep(re, s, i, c, 0)
    [] re.t = "grp" ->
         Bind(Match(re.r, s, i, c), LAMBDA ms :
           [k \in 1..Len(ms) |->
              [e |-> ms[k].e, c |-> [ms[k].c EXCEPT ![re.n] = <<i, ms[k].e>>]]] \o <<>>)

\* rs[k], rs[k+1], ... one after the other
MatchCat(rs, k, s, i, c) ==
  IF k > Len(rs) THEN <<[e |-> i, c |-> c]>>
  ELSE IF k = Len(rs) THEN Match(rs[k], s, i, c)
  ELSE Bind(Match(rs[k], s, i, c), LAMBDA ms :
         Flatten([j \in 1..Len(ms) |-> MatchCat(rs, k + 1, s, ms[j].e, ms[j].c)]))

\* after n rounds of re.r: one more round first, then none (the other way round if
\* lazy); a round that consumes nothing is not repeated
MatchRep(re, s, i, c, n) ==
  Bind(IF re.max # -1 /\ n >= re.max THEN <<>> ELSE Match(re.r, s, i, c), LAMBDA ms :
    Bind(Flatten([j \in 1..Len(ms) |->
                    IF ms[j].e > i THEN MatchRep(re, s, ms[j].e, ms[j].c, n + 1) ELSE <<>>]),
         LAMBDA more :
           IF n < re.min THEN more
           ELSE Flatten(IF re.lazy THEN << <<[e |-> i, c |-> c]>>, more >>
                        ELSE << more, <<[e |-> i, c |-> c]>> >>)))

NoMatch == [b |-> 0, e |-> 0, c |-> NoCaps]

\* the leftmost match that starts at position from or later (NoMatch if there is none)
FindFrom(re, s, from) ==
  Bind({<<b, Match(re, s, b, NoCaps)>> : b \in from..(Len(s) + 1)}, LAMBDA found :
    Bind({p \in found : p[2] # <<>>}, LAMBDA hits :
      IF hits = {} THEN NoMatch
      ELSE Bind(CHOOSE p \in hits : \A q \in hits : p[1] <= q[1], LAMBDA p :
             [b |-> p[1], e |-> p[2][1].e, c |-> p[2][1].c])))

\* Regexp.MatchString
MatchString(re, s) == FindFrom(re, s, 1).b # 0

\* the text of a match, and of its capturing group n ("" if the group did not take part)
MatchText(s, m) == SubSeq(s, m.b, m.e - 1)

GroupText(s, m, n) ==
  IF m.c[n] = <<0, 0>> THEN "" ELSE SubSeq(s, m.c[n][1], m.c[n][2] - 1)

\* the successive non-overlapping matches, as ReplaceAllStringFunc visits them (none of
\* the package's expressions matches the empty string)
RECURSIVE FindAll(_, _, _)
FindAll(re, s, from) ==
  Bind(FindFrom(re, s, from), LAMBDA m :
    IF m.b = 0 THEN <<>>
    ELSE <<m>> \o FindAll(re, s, IF m.e > m.b THEN m.e ELSE m.e + 1))

(***************************************************************************)
(* The patterns of the package.                                            *)
(***************************************************************************)
AlnumSet == DigitSet \cup LetterSet

\* emailRegexPattern = [a-zA-Z0-9._%+-]+@[a-zA-Z0-9.-]+\.[a-zA-Z]{2,}
emailRegexPattern ==
  Cat(<<Plus(Set(AlnumSet \cup {".", "_", "%", "+", "-"})), Lit("@"),
        Plus(Set(AlnumSet \cup {".", "-"})), Lit("."), Rep(Set(LetterSet), 2, -1)>>)

SepSet == {" ", "\t", "\n", "\f", "\r", ".", "-"}

\* phoneRegexPattern = (\+\d{1,2}\s)?\(?\d{3}\)?[\s.-]?\d{3}[\s.-]?\d{4}
phoneRegexPattern ==
  Cat(<<Opt(Grp(1, Cat(<<Lit("+"), Rep(ReDigit, 1, 2), ReSpace>>))),
        Opt(Lit("(")), Rep(ReDigit, 3, 3), Opt(Lit(")")), Opt(Set(SepSet)),
        Rep(ReDigit, 3, 3), Opt(Set(SepSet)), Rep(ReDigit, 4, 4)>>)

\* phoneFormatRegexPattern = ^(\+?1?\s?)?(\(?)(\d{3})(\)?[\s.-]?)(\d{3})([\s.-]?)(\d{4})
phoneFormatRegexPattern ==
  Cat(<<Bol,
        Opt(Grp(1, Cat(<<Opt(Lit("+")), Opt(Lit("1")), Opt(ReSpace)>>))),
        Grp(2, Opt(Lit("("))),
        Grp(3, Rep(ReDigit, 3, 3)),
        Grp(4, Cat(<<Opt(Lit(")")), Opt(Set(SepSet))>>)),
        Grp(5, Rep(ReDigit, 3, 3)),
        Grp(6, Opt(Set(SepSet))),
        Grp(7, Rep(ReDigit, 4, 4))>>)

\* ssnRegexPattern = \d{3}[- ]?\d{2}[- ]?\d{4}
ssnRegexPattern ==
  Cat(<<Rep(ReDigit, 3, 3), Opt(Set({"-", " "})), Rep(ReDigit, 2, 2), Opt(Set({"-", " "})),
        Rep(ReDigit, 4, 4)>>)

\* ssnSpaceRegexPattern = [ ]
ssnSpaceRegexPattern == Set({" "})

\* ssnHyphenRegexPattern = [-]
ssnHyphenRegexPattern == Set({"-"})

\* ssnContextRegexPattern = (?i)SSN|social security
ssnContextRegexPattern == Alt(<<LitI("SSN"), LitI("social security")>>)

CardSep == Opt(Set({" ", "\t", "\n", "\f", "\r", "-"}))

\* creditCardRegexPattern = \d{4}[\s-]?\d{4}[\s-]?\d{4}[\s-]?\d{4}
creditCardRegexPattern ==
  Cat(<<Rep(ReDigit, 4, 4), CardSep, Rep(ReDigit, 4, 4), CardSep, Rep(ReDigit, 4, 4), CardSep,
        Rep(ReDigit, 4, 4)>>)

\* nameRegexPattern = \b[A-Z][a-z]+ [A-Z][a-z]+\b
nameRegexPattern ==
  Cat(<<WordBoundary, Set(UpperSet), Plus(Set(LowerSet)), Lit(" "), Set(UpperSet),
        Plus(Set(LowerSet)), WordBoundary>>)
addressWords ==
  <<
    "Street", "Avenue", "Road", "Lane", "Drive", "Boulevard", "Blvd", "Way", "Plaza", "Square",
    "Court", "Terrace", "Place", "Circle", "Alley", "Row", "Highway", "Hwy", "Parkway", "Path",
    "Trail", "Crescent", "Rue", "Strasse", "Straße", "Calle", "Via", "Viale", "Avenida",
    "Carrer", "Straat", "Gasse", "Weg", "Camino", "Ulica", "Utca", "Prospekt", "Dori", "Jalan",
    "Marg", "Dao", "Jie", "Lu"
  >>

internationalAddressWords ==
  <<
    "street", "avenue", "road", "lane", "drive", "boulevard", "blvd", "way", "plaza", "square",
    "court", "terrace", "place", "circle", "alley", "row", "highway", "parkway", "path",
    "trail", "crescent", "rue", "strasse", "straße", "calle", "via", "viale", "avenida",
    "carrer", "straat", "gasse", "weg", "camino", "ulica", "utca", "prospekt", "dori", "jalan",
    "marg", "dao", "jie", "lu"
  >>

isoCountryCodes ==
  <<
    "AF", "AX", "AL", "DZ", "AS", "AD", "AO", "AI", "AQ", "AG", "AR", "AM", "AW", "AU", "AT",
    "AZ", "BS", "BH", "BD", "BB", "BY", "BE", "BZ", "BJ", "BM", "BT", "BO", "BQ", "BA", "BW",
    "BV", "BR", "IO", "BN", "BG", "BF", "BI", "KH", "CM", "CA", "CV", "KY", "CF", "TD", "CL",
    "CN", "CX", "CC", "CO", "KM", "CG", "CD", "CK", "CR", "CI", "HR", "CU", "CW", "CY", "CZ",
    "DK", "DJ", "DM", "DO", "EC", "EG", "SV", "GQ", "ER", "EE", "ET", "FK", "FO", "FJ", "FI",
    "FR", "GF", "PF", "TF", "GA", "GM", "GE", "DE", "GH", "GI", "GR", "GL", "GD", "GP", "GU",
    "GT", "GG", "GN", "GW", "GY", "HT", "HM", "VA", "HN", "HK", "HU", "IS", "IN", "ID", "IR",
    "IQ", "IE", "IM", "IL", "IT", "JM", "JP", "JE", "JO", "KZ", "KE", "KI", "KP", "KR", "KW",
    "KG", "LA", "LV", "LB", "LS", "LR", "LY", "LI", "LT", "LU", "MO", "MK", "MG", "MW", "MY",
    "MV", "ML", "MT", "MH", "MQ", "MR", "MU", "YT", "MX", "FM", "MD", "MC", "MN", "ME", "MS",
    "MA", "MZ", "MM", "NA", "NR", "NP", "NL", "NC", "NZ", "NI", "NE", "NG", "NU", "NF", "MP",
    "NO", "OM", "PK", "PW", "PS", "PA", "PG", "PY", "PE", "PH", "PN", "PL", "PT", "PR", "QA",
    "RE", "RO", "RU", "RW", "BL", "SH", "KN", "LC", "MF", "PM", "VC", "WS", "SM", "ST", "SA",
    "SN", "RS", "SC", "SL", "SG", "SX", "SK", "SI", "SB", "SO", "ZA", "GS", "SS", "ES", "LK",
    "SD", "SR", "SJ", "SZ", "SE", "CH", "SY", "TW", "TJ", "TZ", "TH", "TL", "TG", "TK", "TO",
    "TT", "TN", "TR", "TM", "TC", "TV", "UG", "UA", "AE", "GB", "US", "USA", "UM", "UY", "UZ",
    "VU", "VE", "VN", "VG", "VI", "WF", "EH", "YE", "ZM", "ZW"
  >>

countryNames ==
  <<
    AltLitI(<<
      "Afghanistan", "Albania", "Algeria", "Andorra", "Angola", "Argentina", "Armenia",
      "Australia", "Austria", "Azerbaijan", "Bahamas", "Bahrain", "Bangladesh", "Barbados",
      "Belarus", "Belgium", "Belize", "Benin", "Bhutan", "Bolivia", "Bosnia", "Brazil",
      "Brunei", "Bulgaria"
    >>),
    Cat(<<LitI("Burkina"), Plus(ReSpace), LitI("Faso")>>),
    AltLitI(<<
      "Burundi", "Cambodia", "Cameroon", "Canada", "Chad", "Chile", "China", "Colombia",
      "Comoros", "Congo"
    >>),
    Cat(<<LitI("Costa"), Plus(ReSpace), LitI("Rica")>>),
    AltLitI(<<
      "Croatia", "Cuba", "Cyprus", "Czech", "Denmark", "Djibouti", "Dominica"
    >>),
    Cat(<<LitI("Dominican"), Plus(ReSpace), LitI("Republic")>>),
    AltLitI(<<
      "Ecuador", "Egypt"
    >>),
    Cat(<<LitI("El"), Plus(ReSpace), LitI("Salvador")>>),
    AltLitI(<<
      "Eritrea", "Estonia", "Eswatini", "Ethiopia", "Fiji", "Finland", "France", "Gabon",
      "Gambia", "Georgia", "Germany", "Ghana", "Greece", "Grenada", "Guatemala", "Guinea",
      "Guyana", "Haiti", "Honduras", "Hungary", "Iceland", "India", "Indonesia", "Iran",
      "Iraq", "Ireland", "Israel", "Italy", "Jamaica", "Japan", "Jordan", "Kazakhstan",
      "Kenya", "Kiribati", "Korea", "Kuwait", "Kyrgyzstan", "Laos", "Latvia", "Lebanon",
      "Lesotho", "Liberia", "Libya", "Liechtenstein", "Lithuania", "Luxembourg", "Madagascar",
      "Malawi", "Malaysia", "Maldives", "Mali", "Malta", "Mauritania", "Mauritius", "Mexico",
      "Micronesia", "Moldova", "Monaco", "Mongolia", "Montenegro", "Morocco", "Mozambique",
      "Myanmar", "Namibia", "Nauru", "Nepal", "Netherlands"
    >>),
    Cat(<<LitI("New"), Plus(ReSpace), LitI("Zealand")>>),
    AltLitI(<<
      "Nicaragua", "Niger", "Nigeria", "Norway", "Oman", "Pakistan", "Palau", "Panama"
    >>),
    Cat(<<LitI("Papua"), Plus(ReSpace), LitI("New"), Plus(ReSpace), LitI("Guinea")>>),
    AltLitI(<<
      "Paraguay", "Peru", "Philippines", "Poland", "Portugal", "Qatar", "Romania", "Russia",
      "Rwanda", "Samoa"
    >>),
    Cat(<<LitI("San"), Plus(ReSpace), LitI("Marino")>>),
    Cat(<<LitI("Saudi"), Plus(ReSpace), LitI("Arabia")>>),
    AltLitI(<<
      "Senegal", "Serbia", "Seychelles"
    >>),
    Cat(<<LitI("Sierra"), Plus(ReSpace), LitI("Leone")>>),
    AltLitI(<<
      "Singapore", "Slovakia", "Slovenia"
    >>),
    Cat(<<LitI("Solomon"), Plus(ReSpace), LitI("Islands")>>),
    AltLitI(<<
      "Somalia"
    >>),
    Cat(<<LitI("South"), Plus(ReSpace), LitI("Africa")>>),
    Cat(<<LitI("South"), Plus(ReSpace), LitI("Sudan")>>),
    AltLitI(<<
      "Spain"
    >>),
    Cat(<<LitI("Sri"), Plus(ReSpace), LitI("Lanka")>>),
    AltLitI(<<
      "Sudan", "Suriname", "Sweden", "Switzerland", "Syria", "Taiwan", "Tajikistan",
      "Tanzania", "Thailand", "Togo", "Tonga"
    >>),
    Cat(<<LitI("Trinidad"), Plus(ReSpace), LitI("and"), Plus(ReSpace), LitI("Tobago")>>),
    AltLitI(<<
      "Tunisia", "Turkey", "Turkmenistan", "Tuvalu", "Uganda", "Ukraine"
    >>),
    Cat(<<LitI("United"), Plus(ReSpace), LitI("Arab"), Plus(ReSpace), LitI("Emirates")>>),
    AltLitI(<<
      "UAE"
    >>),
    Cat(<<LitI("United"), Plus(ReSpace), LitI("Kingdom")>>),
    AltLitI(<<
      "UK"
    >>),
    Cat(<<LitI("Great"), Plus(ReSpace), LitI("Britain")>>),
    AltLitI(<<
      "Britain", "England", "Scotland", "Wales"
    >>),
    Cat(<<LitI("United"), Plus(ReSpace), LitI("States")>>),
    AltLitI(<<
      "USA", "U.S.A.", "U.S.", "US", "America", "Uruguay", "Uzbekistan", "Vanuatu", "Vatican",
      "Venezuela", "Vietnam", "Yemen", "Zambia", "Zimbabwe"
    >>)
  >>

cityNames ==
  <<
    Cat(<<LitI("New"), Plus(ReSpace), LitI("York")>>),
    Cat(<<LitI("Los"), Plus(ReSpace), LitI("Angeles")>>),
    AltLitI(<<
      "Chicago", "Houston", "Phoenix", "Philadelphia"
    >>),
    Cat(<<LitI("San"), Plus(ReSpace), LitI("Antonio")>>),
    Cat(<<LitI("San"), Plus(ReSpace), LitI("Diego")>>),
    AltLitI(<<
      "Dallas"
    >>),
    Cat(<<LitI("San"), Plus(ReSpace), LitI("Jose")>>),
    AltLitI(<<
      "Austin", "Jacksonville"
    >>),
    Cat(<<LitI("Fort"), Plus(ReSpace), LitI("Worth")>>),
    AltLitI(<<
      "Columbus", "Charlotte", "Indianapolis"
    >>),
    Cat(<<LitI("San"), Plus(ReSpace), LitI("Francisco")>>),
    AltLitI(<<
      "Seattle", "Denver", "Washington", "Boston", "London", "Manchester", "Birmingham",
      "Liverpool", "Glasgow", "Edinburgh", "Paris", "Marseille", "Lyon", "Berlin", "Munich",
      "Hamburg", "Frankfurt", "Tokyo", "Osaka", "Kyoto", "Seoul", "Mumbai", "Delhi",
      "Hyderabad", "Bangkok", "Beijing", "Shanghai"
    >>),
    Cat(<<LitI("Hong"), Plus(ReSpace), LitI("Kong")>>),
    AltLitI(<<
      "Singapore", "Toronto", "Vancouver", "Montreal", "Sydney", "Melbourne", "Brisbane",
      "Madrid", "Barcelona", "Rome", "Milan", "Amsterdam", "Brussels", "Vienna", "Prague",
      "Moscow"
    >>),
    Cat(<<LitI("St."), Plus(ReSpace), LitI("Petersburg")>>),
    AltLitI(<<
      "Dubai"
    >>),
    Cat(<<LitI("Abu"), Plus(ReSpace), LitI("Dhabi")>>),
    AltLitI(<<
      "Riyadh", "Cairo", "Nairobi", "Lagos", "Johannesburg"
    >>),
    Cat(<<LitI("Cape"), Plus(ReSpace), LitI("Town")>>),
    AltLitI(<<
      "Casablanca", "Istanbul", "Ankara", "Tehran", "Baghdad", "Karachi", "Lahore", "Dhaka",
      "Jakarta", "Manila", "Auckland"
    >>)
  >>

\* addressWordRegexPattern = (?i)\b(Street|Avenue|...|Lu)\b
addressWordRegexPattern == Cat(<<WordBoundary, AltLitI(addressWords), WordBoundary>>)

\* internationalAddressRegexPattern = (?i)(street|avenue|...|lu)
internationalAddressRegexPattern == AltLitI(internationalAddressWords)

\* countryNameRegexPattern = (?i)(Afghanistan|Albania|...|Zimbabwe)
countryNameRegexPattern == Alt(countryNames)

\* cityRegexPattern = (?i)(New\s+York|Los\s+Angeles|...|Auckland)
cityRegexPattern == Alt(cityNames)

\* isoCountryCodeRegexPattern = (?i)\b(AF|AX|...|ZW)\b
isoCountryCodeRegexPattern == Cat(<<WordBoundary, AltLitI(isoCountryCodes), WordBoundary>>)

\* the letters \p{L} adds to A-Za-z among the characters the model's strings use
UnicodeLetterSet == CharsOf("ÉéöößíàáúÄäÜüñç")

\* [A-Za-z\p{L}]
ReLetter == Set(LetterSet \cup UnicodeLetterSet)

\* [\s,]+
ReGap == Plus(Set({" ", "\t", "\n", "\f", "\r", ","}))

\* (\d+[-\s]?\w*|\d+-\d+-\d+)
ReHouseNumber ==
  Alt(<<Cat(<<Plus(ReDigit), Opt(Set({"-", " ", "\t", "\n", "\f", "\r"})), Star(ReWord)>>),
        Cat(<<Plus(ReDigit), Lit("-"), Plus(ReDigit), Lit("-"), Plus(ReDigit)>>)>>)

\* [A-Za-z\p{L}]+([\s'-][A-Za-z\p{L}]+)*
ReWords ==
  Cat(<<Plus(ReLetter),
        Star(Cat(<<Set({" ", "\t", "\n", "\f", "\r", "'", "-"}), Plus(ReLetter)>>))>>)

\* ([A-Za-z\p{L}]+([\s'-][A-Za-z\p{L}]+)*[\s,]+)+
ReStreetWords == Plus(Cat(<<ReWords, ReGap>>))

\* specialAddressPattern1: house number, words, (Road|Rd|...|Dr), [\s,]+, a country name
specialAddressPattern1 ==
  Cat(<<ReHouseNumber, ReGap, ReStreetWords,
        AltLitI(<<"Road", "Rd", "Street", "St", "Avenue", "Ave", "Boulevard", "Blvd", "Drive",
                  "Dr">>),
        ReGap, countryNameRegexPattern>>)

\* specialAddressPattern2: (\d+), words, (Rue|Via|Road|Street|Avenue), words, a city, a country
specialAddressPattern2 ==
  Cat(<<Plus(ReDigit), ReGap, ReStreetWords,
        AltLitI(<<"Rue", "Via", "Road", "Street", "Avenue">>),
        ReGap, ReWords, ReGap, cityRegexPattern, ReGap, countryNameRegexPattern>>)

\* specialAddressPattern3: (:\s+|at\s+|@\s+), house number, words, a street type
specialAddressPattern3 ==
  Cat(<<Alt(<<Cat(<<Lit(":"), Plus(ReSpace)>>), Cat(<<LitI("at"), Plus(ReSpace)>>),
              Cat(<<Lit("@"), Plus(ReSpace)>>)>>),
        ReHouseNumber, ReGap, ReStreetWords,
        AltLitI(<<"Road", "Rd", "Street", "St", "Avenue", "Ave", "Boulevard", "Blvd", "Drive",
                  "Dr", "Lane", "Ln", "Place", "Pl", "Rue", "Via", "Viale", "Strasse", "Straße",
                  "Calle", "Avenida">>)>>)

\* (\s*,\s*|\s+)
ReCommaOrSpace ==
  Alt(<<Cat(<<Star(ReSpace), Lit(","), Star(ReSpace)>>), Plus(ReSpace)>>)

\* addressRegexPattern: house number, words, a street type, (\s*,\s*|\s+), an optional
\* city, an optional separator, an optional ISO code or country name
addressRegexPattern ==
  Cat(<<ReHouseNumber, ReGap, ReStreetWords,
        AltLitI(<<"Street", "St", "Avenue", "Ave", "Road", "Rd", "Drive", "Dr", "Lane", "Ln",
                  "Place", "Pl", "Boulevard", "Blvd", "Way", "Plaza", "Square", "Sq", "Court",
                  "Ct", "Terrace", "Ter", "Circle", "Cir", "Alley", "Row", "Highway", "Hwy",
                  "Parkway", "Pkwy", "Path", "Trail", "Tr", "Crescent", "Cres", "Rue", "Strasse",
                  "Straße", "Calle", "Via", "Viale", "Avenida", "Carrer", "Straat", "Gasse",
                  "Weg", "Camino", "Ulica", "Utca", "Prospekt", "Dori", "Jalan", "Marg", "Dao",
                  "Jie", "Lu", "út", "de la", "del", "di", "van", "von">>),
        ReCommaOrSpace, Opt(ReWords), Opt(ReCommaOrSpace),
        Opt(Alt(<<isoCountryCodeRegexPattern, countryNameRegexPattern>>))>>)

\* the expression compiled in processContextAddresses:
\* (?i)(lives at|located at|...|based at) (\d+[^\n\.]*?(Street|St|...|Way)[^\n\.]*)
contextAddressPattern ==
  Cat(<<Grp(1, AltLitI(<<"lives at", "located at", "resides at", "found at", "situated at",
                         "at address", "address is", "at location", "based at">>)),
        Lit(" "),
        Grp(2, Cat(<<Plus(ReDigit), RepLazy(NotSet({"\n", "."}), 0, -1),
                     AltLitI(<<"Street", "St", "Avenue", "Ave", "Road", "Rd", "Drive", "Dr",
                               "Lane", "Ln", "Place", "Pl", "Boulevard", "Blvd", "Way">>),
                     Star(NotSet({"\n", "."}))>>))>>)

\* generatePhone creates a deterministic fake phone number preserving format
generatePhone(original) ==
  LET m == FindFrom(phoneFormatRegexPattern, original, 1)
      hash == deterministicHash(original)
      exchange == 200 + hashToIndex(Slice(hash, 0, 8), 799)
      number == 1000 + hashToIndex(Slice(hash, 8, 16), 8999)
  IN  IF m.b = 0 THEN generateGeneric(original)
      ELSE GroupText(original, m, 1) \o GroupText(original, m, 2) \o GroupText(original, m, 3)
             \o GroupText(original, m, 4) \o ZeroPad(Itoa(exchange), 3)
             \o GroupText(original, m, 6) \o ZeroPad(Itoa(number), 4)

\* the switch of deidentifyValue
Generate(value, dataType) ==
  CASE dataType = TypeName -> generateName(value)
    [] dataType = TypeEmail -> generateEmail(value)
    [] dataType = TypePhone -> generatePhone(value)
    [] dataType = TypeSSN -> generateSSN(value)
    [] dataType = TypeCreditCard -> generateCreditCard(value)
    [] dataType = TypeAddress -> generateAddress(value)
    [] OTHER -> generateGeneric(value)

(***************************************************************************)
(* The goroutines and the mapping store.                                   *)
(***************************************************************************)
Threads == 1..NumThreads

\* the zero values of the per-goroutine variables
NoCall == [kind |-> "none"]

NoFrame == [value |-> "", dataType |-> TypeGeneric, columnName |-> "", result |-> ""]

NoRet == [status |-> "none", value |-> "", args |-> [kind |-> "none"]]

\* sync.RWMutex: free when nobody holds it
Unlocked == [readers |-> {}, writer |-> {}]

\* d.mappingTables[columnName][original], "" when either key is missing
Lookup(tables, columnName, original) ==
  IF columnName \in DOMAIN tables /\ original \in DOMAIN tables[columnName]
  THEN tables[columnName][original] ELSE ""

\* a store that keeps one map for all columns: the assignment goes to the slot ""
StoreShared(tables, columnName, original, replacement) ==
  LET columnMap == IF "" \in DOMAIN tables THEN tables[""] ELSE <<>>
      newMap == [o \in DOMAIN columnMap \cup {original} |->
                   IF o = original THEN replacement ELSE columnMap[o]]
  IN  [n \in DOMAIN tables \cup {""} |-> IF n = "" THEN newMap ELSE tables[n]]

\* the map after d.mappingTables[columnName][original] = replacement
Store(tables, columnName, original, replacement) ==
  LET columnMap == IF columnName \in DOMAIN tables THEN tables[columnName] ELSE <<>>
      newMap == [o \in DOMAIN columnMap \cup {original} |->
                   IF o = original THEN replacement ELSE columnMap[o]]
  IN  [n \in DOMAIN tables \cup {columnName} |-> IF n = columnName THEN newMap ELSE tables[n]]

\* a goroutine enters deidentifyValue(value, dataType, columnName)
EnterFrame(value, dataType, columnName) ==
  [value |-> value, dataType |-> dataType, columnName |-> columnName, result |-> ""]

\* deidentifyValue, up to the call of getMapping: the empty value is returned as it is
deidentifyValue(t) ==
  /\ pc[t] = "deidentifyValue"
  /\ pc' = [pc EXCEPT ![t] = IF frame[t].value = "" THEN "return" ELSE "getMapping_RLock"]
  /\ UNCHANGED <<secretKey, calls, mappingTables, mutex, call, frame, ret, retLog, genLog>>

\* getMapping without d.mutex.RLock(): the lookup runs whoever holds the mutex
getMapping_NoLock(t) ==
  /\ pc[t] = "getMapping_RLock"
  /\ pc' = [pc EXCEPT ![t] = "getMapping"]
  /\ UNCHANGED <<secretKey, calls, mappingTables, mutex, call, frame, ret, retLog, genLog>>

\* getMapping: d.mutex.RLock()
getMapping_RLock(t) ==
  /\ pc[t] = "getMapping_RLock"
  /\ mutex.writer = {}
  /\ mutex' = [mutex EXCEPT !.readers = @ \cup {t}]
  /\ pc' = [pc EXCEPT ![t] = "getMapping"]
  /\ UNCHANGED <<secretKey, calls, mappingTables, call, frame, ret, retLog, genLog>>

\* getMapping followed by a deidentifyValue that generates whether or not there is a
\* mapping
getMapping_Regenerate(t) ==
  /\ pc[t] = "getMapping"
  /\ frame' = [frame EXCEPT ![t].result =
                 Lookup(mappingTables, frame[t].columnName, frame[t].value)]
  /\ pc' = [pc EXCEPT ![t] = "generate"]
  /\ mutex' = [mutex EXCEPT !.readers = @ \ {t}]
  /\ UNCHANGED <<secretKey, calls, mappingTables, call, ret, retLog, genLog>>

\* getMapping: the lookup and the deferred d.mutex.RUnlock(); back in deidentifyValue a
\* non-empty mapping is the result
getMapping(t) ==
  /\ pc[t] = "getMapping"
  /\ LET mapped == Lookup(mappingTables, frame[t].columnName, frame[t].value)
     IN  /\ frame' = [frame EXCEPT ![t].result = mapped]
         /\ pc' = [pc EXCEPT ![t] = IF mapped # "" THEN "return" ELSE "generate"]
  /\ mutex' = [mutex EXCEPT !.readers = @ \ {t}]
  /\ UNCHANGED <<secretKey, calls, mappingTables, call, ret, retLog, genLog>>

\* deidentifyValue: the switch on dataType, which runs without the lock
generate(t) ==
  /\ pc[t] = "generate"
  /\ frame' = [frame EXCEPT ![t].result = Generate(frame[t].value, frame[t].dataType)]
  /\ genLog' = genLog \cup {<<frame[t].value, frame[t].dataType, frame'[t].result,
                               mappingTables = <<>> >>}
  /\ pc' = [pc EXCEPT ![t] = "setMapping_Lock"]
  /\ UNCHANGED <<secretKey, calls, mappingTables, mutex, call, ret, retLog>>

\* setMapping: d.mutex.Lock()
setMapping_Lock(t) ==
  /\ pc[t] = "setMapping_Lock"
  /\ mutex = Unlocked
  /\ mutex' = [mutex EXCEPT !.writer = {t}]
  /\ pc' = [pc EXCEPT ![t] = "setMapping"]
  /\ UNCHANGED <<secretKey, calls, mappingTables, call, frame, ret, retLog, genLog>>

\* setMapping: the assignment and the deferred d.mutex.Unlock()
setMapping(t) ==
  /\ pc[t] = "setMapping"
  /\ mappingTables' =
       Store(mappingTables, frame[t].columnName, frame[t].value, frame[t].result)
  /\ mutex' = [mutex EXCEPT !.writer = {}]
  /\ pc' = [pc EXCEPT ![t] = "return"]
  /\ UNCHANGED <<secretKey, calls, call, frame, ret, retLog, genLog>>

\* the history after deidentifyValue of goroutine t has returned frame[t].result
Returned(t) ==
  IF frame[t].value = "" THEN retLog
  ELSE retLog \cup {<<frame[t].columnName, frame[t].value, frame[t].result, frame[t].dataType>>}

\* ClearMappings clears all stored mappings
ClearMappings(t) ==
  /\ pc[t] = "idle"
  /\ calls < MaxCalls
  /\ calls' = calls + 1
  /\ call' = [call EXCEPT ![t] = [kind |-> "ClearMappings"]]
  /\ pc' = [pc EXCEPT ![t] = "ClearMappings_Lock"]
  /\ ret' = [ret EXCEPT ![t] = NoRet]
  /\ UNCHANGED <<secretKey, mappingTables, mutex, frame, retLog, genLog>>

\* ClearMappings: d.mutex.Lock()
ClearMappings_Lock(t) ==
  /\ pc[t] = "ClearMappings_Lock"
  /\ mutex = Unlocked
  /\ mutex' = [mutex EXCEPT !.writer = {t}]
  /\ pc' = [pc EXCEPT ![t] = "ClearMappings_make"]
  /\ UNCHANGED <<secretKey, calls, mappingTables, call, frame, ret, retLog, genLog>>

\* ClearMappings that keeps the map it has
ClearMappings_keep(t) ==
  /\ pc[t] = "ClearMappings_make"
  /\ mutex' = [mutex EXCEPT !.writer = {}]
  /\ pc' = [pc EXCEPT ![t] = "idle"]
  /\ call' = [call EXCEPT ![t] = NoCall]
  /\ ret' = [ret EXCEPT ![t] =
                [status |-> "ok", value |-> "", args |-> [kind |-> "ClearMappings"]]]
  /\ UNCHANGED <<secretKey, calls, mappingTables, frame, retLog, genLog>>

\* ClearMappings: the new map and the deferred d.mutex.Unlock()
ClearMappings_make(t) ==
  /\ pc[t] = "ClearMappings_make"
  /\ mappingTables' = <<>>
  /\ mutex' = [mutex EXCEPT !.writer = {}]
  /\ pc' = [pc EXCEPT ![t] = "idle"]
  /\ call' = [call EXCEPT ![t] = NoCall]
  /\ ret' = [ret EXCEPT ![t] =
                [status |-> "ok", value |-> "", args |-> [kind |-> "ClearMappings"]]]
  /\ UNCHANGED <<secretKey, calls, frame, retLog, genLog>>

(***************************************************************************)
(* The single-value methods.                                               *)
(***************************************************************************)
\* a method that is deidentifyValue(value, dataType, columnName) and nothing else
Convenience(t, kind, value, dataType, columnName) ==
  /\ pc[t] = "idle"
  /\ calls < MaxCalls
  /\ calls' = calls + 1
  /\ call' = [call EXCEPT ![t] =
                [kind |-> kind, args |-> [kind |-> kind, value |-> value], prefix |-> ""]]
  /\ frame' = [frame EXCEPT ![t] = EnterFrame(value, dataType, columnName)]
  /\ pc' = [pc EXCEPT ![t] = "deidentifyValue"]
  /\ ret' = [ret EXCEPT ![t] = NoRet]
  /\ UNCHANGED <<secretKey, mappingTables, mutex, retLog, genLog>>

CreditCard(t, cc) == Convenience(t, "CreditCard", cc, TypeCreditCard, "credit_card")

Email(t, email) == Convenience(t, "Email", email, TypeEmail, "email")

Name(t, name) == Convenience(t, "Name", name, TypeName, "name")

Phone(t, phone) == Convenience(t, "Phone", phone, TypePhone, "phone")

SSN(t, ssn) == Convenience(t, "SSN", ssn, TypeSSN, "ssn")

\* strings.Index(s, c) for a one-character c: 0-based, -1 if c does not occur
StringsIndex(s, c) ==
  LET hits == {i \in 1..Len(s) : CharAt(s, i) = c}
  IN  IF hits = {} THEN -1 ELSE (CHOOSE i \in hits : \A k \in hits : i <= k) - 1

\* Address: the text after a label such as "European HQ:" is deidentified and the label is
\* kept.  The three special patterns and the fallback all run the same statements, so which
\* of them matches has no effect.
Address(t, address0) ==
  LET address == TrimSpace(address0)
      colonIndex == StringsIndex(address, ":")
      actualAddr == IF colonIndex >= 0
                    THEN TrimSpace(SubSeq(address, colonIndex + 2, Len(address)))
                    ELSE address
  IN  /\ pc[t] = "idle"
      /\ calls < MaxCalls
      /\ calls' = calls + 1
      /\ call' = [call EXCEPT ![t] =
                    [kind |-> "Address", args |-> [kind |-> "Address", value |-> address0],
                     prefix |-> IF colonIndex >= 0
                                THEN SubSeq(address, 1, colonIndex + 1) \o " " ELSE ""]]
      /\ frame' = [frame EXCEPT ![t] = EnterFrame(actualAddr, TypeAddress, "address")]
      /\ pc' = [pc EXCEPT ![t] = "deidentifyValue"]
      /\ ret' = [ret EXCEPT ![t] = NoRet]
      /\ UNCHANGED <<secretKey, mappingTables, mutex, retLog, genLog>>

SingleValueKinds == {"CreditCard", "Email", "Name", "Phone", "SSN", "Address"}

\* the return statement of a single-value method
Convenience_return(t) ==
  /\ pc[t] = "return"
  /\ call[t].kind \in SingleValueKinds
  /\ ret' = [ret EXCEPT ![t] = [status |-> "ok", value |-> call[t].prefix \o frame[t].result,
                                args |-> call[t].args]]
  /\ retLog' = Returned(t)
  /\ pc' = [pc EXCEPT ![t] = "idle"]
  /\ call' = [call EXCEPT ![t] = NoCall]
  /\ frame' = [frame EXCEPT ![t] = NoFrame]
  /\ UNCHANGED <<secretKey, calls, mappingTables, mutex, genLog>>

(***************************************************************************)
(* Table.                                                                  *)
(***************************************************************************)
\* a nil interface value of Column.Values
Nil == "<nil>"

\* the loops of Table without the test for nil: a nil value is a value like any other
RECURSIVE TableScanNilAsValue(_, _, _)
TableScanNilAsValue(table, i, j) ==
  IF i > Len(table.Columns) THEN [done |-> TRUE]
  ELSE IF j > Len(table.Columns[i].Values) THEN TableScanNilAsValue(table, i + 1, 1)
  ELSE [done |-> FALSE, i |-> i, j |-> j]

\* the loops of Table from column i, row j on, up to the next call of deidentifyValue:
\* a nil value stays nil
RECURSIVE TableScan(_, _, _)
TableScan(table, i, j) ==
  IF i > Len(table.Columns) THEN [done |-> TRUE]
  ELSE IF j > Len(table.Columns[i].Values) THEN TableScan(table, i + 1, 1)
  ELSE IF table.Columns[i].Values[j] = Nil THEN TableScan(table, i, j + 1)
  ELSE [done |-> FALSE, i |-> i, j |-> j]

\* result.Columns once every column is done
TableResult(table, out) ==
  [Columns |-> [i \in 1..Len(table.Columns) |->
                  [Name |-> table.Columns[i].Name, DataType |-> table.Columns[i].DataType,
                   Values |-> out[i]]]]

\* where Table goes on from (i, j): into deidentifyValue for the next value, or to its return
TableGo(t, table, out, i, j) ==
  LET next == TableScan(table, i, j)
  IN  IF next.done
      THEN /\ ret' = [ret EXCEPT ![t] =
                        [status |-> "ok", value |-> TableResult(table, out),
                         args |-> [kind |-> "Table", table |-> table]]]
           /\ pc' = [pc EXCEPT ![t] = "idle"]
           /\ call' = [call EXCEPT ![t] = NoCall]
           /\ frame' = [frame EXCEPT ![t] = NoFrame]
      ELSE /\ ret' = [ret EXCEPT ![t] = NoRet]
           /\ pc' = [pc EXCEPT ![t] = "deidentifyValue"]
           /\ call' = [call EXCEPT ![t] =
                         [kind |-> "Table", table |-> table, out |-> out,
                          i |-> next.i, j |-> next.j]]
           /\ frame' = [frame EXCEPT ![t] =
                          EnterFrame(table.Columns[next.i].Values[next.j],
                                     table.Columns[next.i].DataType, table.Columns[next.i].Name)]

\* Table processes an entire table
Table(t, table) ==
  /\ pc[t] = "idle"
  /\ calls < MaxCalls
  /\ calls' = calls + 1
  /\ TableGo(t, table,
             [i \in 1..Len(table.Columns) |-> [j \in 1..Len(table.Columns[i].Values) |-> Nil]],
             1, 1)
  /\ UNCHANGED <<secretKey, mappingTables, mutex, retLog, genLog>>

\* Table: deidentifyValue has returned the value of column i, row j
Table_loop(t) ==
  /\ pc[t] = "return"
  /\ call[t].kind = "Table"
  /\ retLog' = Returned(t)
  /\ TableGo(t, call[t].table,
             [call[t].out EXCEPT ![call[t].i][call[t].j] = frame[t].result],
             call[t].i, call[t].j + 1)
  /\ UNCHANGED <<secretKey, calls, mappingTables, mutex, genLog>>

(***************************************************************************)
(* Type inference for the columns of a matrix.                             *)
(***************************************************************************)
\* isValidValue checks if a cell contains a valid value for analysis (row, col 1-based)
isValidValue(data, row, col) ==
  col <= Len(data[row]) /\ data[row][col] # "" /\ TrimSpace(data[row][col]) # ""

\* scoreValue: what one value adds to the score of dataType
scoreValue(value, dataType) ==
  CASE dataType = TypeEmail -> IF MatchString(emailRegexPattern, value) THEN 10 ELSE 0
    [] dataType = TypePhone -> IF MatchString(phoneRegexPattern, value) THEN 10 ELSE 0
    [] dataType = TypeSSN -> IF MatchString(ssnRegexPattern, value) THEN 10 ELSE 0
    [] dataType = TypeCreditCard ->
         IF MatchString(creditCardRegexPattern, value) THEN 10 ELSE 0
    [] dataType = TypeAddress ->
         IF MatchString(addressRegexPattern, value)
              \/ MatchString(addressWordRegexPattern, value) THEN 10 ELSE 0
    [] dataType = TypeName ->
         IF MatchString(nameRegexPattern, value)
              /\ ~MatchString(addressWordRegexPattern, value) THEN 5 ELSE 0
    [] OTHER -> 0

\* the rows scoreColumnValues samples
SampleRows(data) == 1..Min(Len(data), 10)

\* scoreColumnValues: the number of valid values of the column among the sampled rows
scoreColumnValues(data, col) == Cardinality({row \in SampleRows(data) : isValidValue(data, row, col)})

\* the scores of a loop that does not stop at sampleSize but goes through all rows
RECURSIVE SumScoresAllRows(_, _, _, _)
SumScoresAllRows(data, col, dataType, row) ==
  IF row > Len(data) THEN 0
  ELSE (IF isValidValue(data, row, col)
        THEN scoreValue(TrimSpace(data[row][col]), dataType) ELSE 0)
       + SumScoresAllRows(data, col, dataType, row + 1)

\* the map typeScores after scoreColumnValues
RECURSIVE SumScores(_, _, _, _)
SumScores(data, col, dataType, row) ==
  IF row > Min(Len(data), 10) THEN 0
  ELSE (IF isValidValue(data, row, col)
        THEN scoreValue(TrimSpace(data[row][col]), dataType) ELSE 0)
       + SumScores(data, col, dataType, row + 1)

\* the map typeScores after scoreColumnValues, as the set of its pairs <<type, score>>
typeScores(data, col) == {<<dataType, SumScores(data, col, dataType, 1)>> : dataType \in DataTypes}

\* getConfidenceThreshold without the lower threshold for names
getConfidenceThresholdSame(dataType, validValues) == validValues * 5

\* getConfidenceThreshold
getConfidenceThreshold(dataType, validValues) ==
  IF dataType = TypeName THEN validValues * 3 ELSE validValues * 5

\* findHighestScoringType ranges over a map, whose iteration order is not fixed: of the
\* types that share the highest score, any may be the one met first and so returned
findHighestScoringType(scores) ==
  LET maxScore == CHOOSE m \in {p[2] : p \in scores} : \A p \in scores : p[2] <= m
  IN  IF maxScore = 0 THEN {<<TypeGeneric, 0>>} ELSE {p \in scores : p[2] = maxScore}

\* selectBestType, for one outcome of findHighestScoringType
selectBestType(best, validValues) ==
  IF validValues = 0 THEN TypeGeneric
  ELSE IF best[2] >= getConfidenceThreshold(best[1], validValues) THEN best[1]
  ELSE TypeGeneric

\* inferSingleColumnType: the types it can return
inferSingleColumnType(data, col) ==
  LET scores == typeScores(data, col)
      validValues == scoreColumnValues(data, col)
  IN  {selectBestType(best, validValues) : best \in findHighestScoringType(scores)}

\* inferColumnTypes: the type lists it can return
inferColumnTypes(data) ==
  IF Len(data) = 0 THEN {<<>>}
  ELSE LET numCols == Len(data[1])
           choices == [col \in 1..numCols |-> inferSingleColumnType(data, col)]
       IN  {types \in [1..numCols -> DataTypes] : \A col \in 1..numCols : types[col] \in choices[col]}

(***************************************************************************)
(* Slices.  An optional argument is a record [type, val]: type names the   *)
(* dynamic type of the interface value, val is the value.                  *)
(***************************************************************************)
ErrFirstOptional == "first optional parameter must be []DataType"

ErrSecondOptional == "second optional parameter must be []string"

\* the error of validateSlicesConfig
ErrMismatch(config) ==
  "mismatch between data columns (" \o Itoa(config.numCols) \o ") and provided column types ("
    \o Itoa(Len(config.columnTypes)) \o ") or names (" \o Itoa(Len(config.columnNames)) \o ")"

\* parseOptionalParameters without the check of the second argument: a second argument
\* that is no []string is passed over
parseOptionalParametersUnchecked(optional) ==
  IF Len(optional) > 0 /\ optional[1].type # "[]DataType"
  THEN [err |-> ErrFirstOptional]
  ELSE [err |-> "",
        columnTypes |-> IF Len(optional) > 0 THEN optional[1].val ELSE <<>>,
        columnNames |-> IF Len(optional) > 1 /\ optional[2].type = "[]string"
                        THEN optional[2].val ELSE <<>>]

\* parseOptionalParameters: the error, and the lists taken from the arguments (the zero
\* value of a list is the empty list)
parseOptionalParameters(optional) ==
  IF Len(optional) > 0 /\ optional[1].type # "[]DataType"
  THEN [err |-> ErrFirstOptional]
  ELSE IF Len(optional) > 1 /\ optional[2].type # "[]string"
  THEN [err |-> ErrSecondOptional]
  ELSE [err |-> "",
        columnTypes |-> IF Len(optional) > 0 THEN optional[1].val ELSE <<>>,
        columnNames |-> IF Len(optional) > 1 THEN optional[2].val ELSE <<>>]

\* setDefaultColumnNames generates default column names if not provided
setDefaultColumnNames(columnNames, numCols) ==
  IF Len(columnNames) = 0 THEN [i \in 1..numCols |-> "column_" \o Itoa(i - 1)]
  ELSE columnNames

\* inferOrValidateColumnTypes: the lists config.columnTypes can hold afterwards
inferOrValidateColumnTypes(data, columnTypes) ==
  IF Len(columnTypes) = 0 THEN inferColumnTypes(data) ELSE {columnTypes}

\* validateSlicesConfig validates that configuration matches data structure
validateSlicesConfig(config) ==
  IF Len(config.columnTypes) # config.numCols \/ Len(config.columnNames) # config.numCols
  THEN ErrMismatch(config) ELSE ""

\* parseSlicesParameters: the configurations and errors it can return
parseSlicesParameters(data, optional) ==
  LET parsed == parseOptionalParameters(optional)
      numCols == Len(data[1])
  IN  IF parsed.err # "" THEN {[err |-> parsed.err]}
      ELSE {LET config == [columnTypes |-> types,
                           columnNames |-> setDefaultColumnNames(parsed.columnNames, numCols),
                           numCols |-> numCols]
            IN  [err |-> validateSlicesConfig(config), config |-> config] :
              types \in inferOrValidateColumnTypes(data, parsed.columnTypes)}

\* processSliceData and processSliceRow from row i, cell j on, up to the next call of
\* deidentifyValue: an empty cell stays empty, and the cell of a column past the end of
\* config.columnTypes is an index out of range, a run-time panic
RECURSIVE SlicesScan(_, _, _, _)
SlicesScan(data, config, i, j) ==
  IF i > Len(data) THEN [next |-> "done"]
  ELSE IF j > Len(data[i]) THEN SlicesScan(data, config, i + 1, 1)
  ELSE IF data[i][j] = "" THEN SlicesScan(data, config, i, j + 1)
  ELSE IF j > Len(config.columnTypes) \/ j > Len(config.columnNames)
  THEN [next |-> "panic", i |-> i, j |-> j]
  ELSE [next |-> "call", i |-> i, j |-> j]

\* where Slices goes on from (i, j)
SlicesGo(t, args, data, config, out, i, j) ==
  LET scan == SlicesScan(data, config, i, j)
  IN  IF scan.next = "call"
      THEN /\ ret' = [ret EXCEPT ![t] = NoRet]
           /\ pc' = [pc EXCEPT ![t] = "deidentifyValue"]
           /\ call' = [call EXCEPT ![t] =
                         [kind |-> "Slices", args |-> args, data |-> data, config |-> config,
                          out |-> out, i |-> scan.i, j |-> scan.j]]
           /\ frame' = [frame EXCEPT ![t] =
                          EnterFrame(data[scan.i][scan.j], config.columnTypes[scan.j],
                                     config.columnNames[scan.j])]
      ELSE /\ ret' = [ret EXCEPT ![t] =
                        IF scan.next = "done"
                        THEN [status |-> "ok", value |-> out, args |-> args]
                        ELSE [status |-> "panic", value |-> "index out of range",
                              args |-> args]]
           /\ pc' = [pc EXCEPT ![t] = "idle"]
           /\ call' = [call EXCEPT ![t] = NoCall]
           /\ frame' = [frame EXCEPT ![t] = NoFrame]

\* Slices with the optional arguments parsed before the matrix is looked at: a matrix of
\* no rows with an optional argument of a wrong type ends with the error
SlicesParsedFirst(t, data, optional) ==
  /\ pc[t] = "idle"
  /\ calls < MaxCalls
  /\ calls' = calls + 1
  /\ LET args == [kind |-> "Slices", data |-> data, optional |-> optional]
     IN  IF parseOptionalParameters(optional).err # ""
         THEN /\ ret' = [ret EXCEPT ![t] =
                           [status |-> "error", value |-> parseOptionalParameters(optional).err,
                            args |-> args]]
              /\ UNCHANGED <<pc, call, frame>>
         ELSE IF Len(data) = 0
         THEN /\ ret' = [ret EXCEPT ![t] = [status |-> "ok", value |-> <<>>, args |-> args]]
              /\ UNCHANGED <<pc, call, frame>>
         ELSE \E parsed \in parseSlicesParameters(data, optional) :
                IF parsed.err # ""
                THEN /\ ret' = [ret EXCEPT ![t] =
                                  [status |-> "error", value |-> parsed.err, args |-> args]]
                     /\ UNCHANGED <<pc, call, frame>>
                ELSE SlicesGo(t, args, data, parsed.config,
                              [i \in 1..Len(data) |-> [j \in 1..Len(data[i]) |-> ""]], 1, 1)
  /\ UNCHANGED <<secretKey, mappingTables, mutex, retLog, genLog>>

\* Slices that deidentifies the first cell as Generic before it parses its parameters, so
\* that a call that ends with an error has stored a mapping
SlicesStoresFirst(t, data, optional) ==
  /\ pc[t] = "idle"
  /\ calls < MaxCalls
  /\ calls' = calls + 1
  /\ LET args == [kind |-> "Slices", data |-> data, optional |-> optional]
     IN  IF Len(data) = 0
         THEN /\ ret' = [ret EXCEPT ![t] = [status |-> "ok", value |-> <<>>, args |-> args]]
              /\ UNCHANGED <<pc, call, frame, mappingTables>>
         ELSE \E parsed \in parseSlicesParameters(data, optional) :
                IF parsed.err # ""
                THEN /\ ret' = [ret EXCEPT ![t] =
                                  [status |-> "error", value |-> parsed.err, args |-> args]]
                     /\ mappingTables' =
                          IF Len(data[1]) = 0 \/ data[1][1] = "" THEN mappingTables
                          ELSE Store(mappingTables, "column_0", data[1][1],
                                     Generate(data[1][1], TypeGeneric))
                     /\ UNCHANGED <<pc, call, frame>>
                ELSE /\ SlicesGo(t, args, data, parsed.config,
                                 [i \in 1..Len(data) |-> [j \in 1..Len(data[i]) |-> ""]], 1, 1)
                     /\ UNCHANGED mappingTables
  /\ UNCHANGED <<secretKey, mutex, retLog, genLog>>

\* Slices processes a slice of string slices; what it was called with is kept with what
\* it returns
Slices(t, data, optional) ==
  /\ pc[t] = "idle"
  /\ calls < MaxCalls
  /\ calls' = calls + 1
  /\ LET args == [kind |-> "Slices", data |-> data, optional |-> optional]
     IN  IF Len(data) = 0
         THEN /\ ret' = [ret EXCEPT ![t] = [status |-> "ok", value |-> <<>>, args |-> args]]
              /\ UNCHANGED <<pc, call, frame>>
         ELSE \E parsed \in parseSlicesParameters(data, optional) :
                IF parsed.err # ""
                THEN /\ ret' = [ret EXCEPT ![t] =
                                  [status |-> "error", value |-> parsed.err, args |-> args]]
                     /\ UNCHANGED <<pc, call, frame>>
                ELSE SlicesGo(t, args, data, parsed.config,
                              [i \in 1..Len(data) |-> [j \in 1..Len(data[i]) |-> ""]], 1, 1)
  /\ UNCHANGED <<secretKey, mappingTables, mutex, retLog, genLog>>

\* Slices: deidentifyValue has returned the value of row i, cell j
Slices_loop(t) ==
  /\ pc[t] = "return"
  /\ call[t].kind = "Slices"
  /\ retLog' = Returned(t)
  /\ SlicesGo(t, call[t].args, call[t].data, call[t].config,
              [call[t].out EXCEPT ![call[t].i][call[t].j] = frame[t].result],
              call[t].i, call[t].j + 1)
  /\ UNCHANGED <<secretKey, calls, mappingTables, mutex, genLog>>

(***************************************************************************)
(* Text.  Each pass is ReplaceAllStringFunc of one expression: the matches *)
(* are those of the text the pass starts from, and the function is called  *)
(* for them from left to right.                                            *)
(***************************************************************************)
\* the passes in the order of Text: processEmails, processPhones, processSSNs,
\* processCreditCards, processContextAddresses, processSpecialAddresses (three patterns),
\* processNames, processStandardAddresses
NumPasses == 10

\* the expressions with processSSNs called before processPhones
TextPatternSSNFirst(pass) ==
  CASE pass = 1 -> emailRegexPattern
    [] pass = 2 -> ssnRegexPattern
    [] pass = 3 -> phoneRegexPattern
    [] pass = 4 -> creditCardRegexPattern
    [] pass = 5 -> contextAddressPattern
    [] pass = 6 -> specialAddressPattern1
    [] pass = 7 -> specialAddressPattern2
    [] pass = 8 -> specialAddressPattern3
    [] pass = 9 -> nameRegexPattern
    [] OTHER -> addressRegexPattern

TextPattern(pass) ==
  CASE pass = 1 -> emailRegexPattern
    [] pass = 2 -> phoneRegexPattern
    [] pass = 3 -> ssnRegexPattern
    [] pass = 4 -> creditCardRegexPattern
    [] pass = 5 -> contextAddressPattern
    [] pass = 6 -> specialAddressPattern1
    [] pass = 7 -> specialAddressPattern2
    [] pass = 8 -> specialAddressPattern3
    [] pass = 9 -> nameRegexPattern
    [] OTHER -> addressRegexPattern

\* isAddressContext checks if a name candidate is actually part of an address
isAddressContext(name) ==
  \/ MatchString(addressWordRegexPattern, name)
  \/ MatchString(internationalAddressRegexPattern, name)
  \/ MatchString(countryNameRegexPattern, name)
  \/ MatchString(cityRegexPattern, name)

\* the characters of s that are digits: ReplaceAllString of [^0-9] by ""
RECURSIVE RawDigits(_)
RawDigits(s) ==
  IF s = "" THEN ""
  ELSE (IF CharAt(s, 1) \in DigitSet THEN CharAt(s, 1) ELSE "") \o RawDigits(SubSeq(s, 2, Len(s)))

\* a replacement function that returns its argument
Keep(match) == [call |-> FALSE, text |-> match]

\* a replacement function that returns prefix followed by deidentifyValue(value, ...)
Replace(prefix, value, dataType, columnName) ==
  [call |-> TRUE, prefix |-> prefix, value |-> value, dataType |-> dataType,
   columnName |-> columnName]

\* processSSNMatch that replaces nothing but the numbers written with hyphens or spaces
processSSNMatchFormatted(ssn, originalText) ==
  IF MatchString(ssnHyphenRegexPattern, ssn) \/ MatchString(ssnSpaceRegexPattern, ssn)
  THEN Replace("", ssn, TypeSSN, "ssn")
  ELSE Keep(ssn)

\* processSSNMatch processes a single SSN match with validation
processSSNMatch(ssn, originalText) ==
  LET isFormatted == MatchString(ssnHyphenRegexPattern, ssn)
                       \/ MatchString(ssnSpaceRegexPattern, ssn)
      hasSSNContext == MatchString(ssnContextRegexPattern, originalText)
  IN  IF ~isFormatted /\ ~hasSSNContext /\ Len(RawDigits(ssn)) # 9 THEN Keep(ssn)
      ELSE Replace("", ssn, TypeSSN, "ssn")

\* the replacement function of processContextAddresses
processContextAddressMatch(match) ==
  LET parts == FindFrom(contextAddressPattern, match, 1)
  IN  IF parts.b = 0 THEN Keep(match)
      ELSE Replace(GroupText(match, parts, 1) \o " ", TrimSpace(GroupText(match, parts, 2)),
                   TypeAddress, "address")

\* the replacement function of processSpecialAddressPattern3: strings.SplitN(addr, " ", 2)
processSpecialAddressPattern3Match(addr) ==
  LET space == StringsIndex(addr, " ")
  IN  IF space < 0 THEN Keep(addr)
      ELSE Replace(SubSeq(addr, 1, space) \o " ",
                   TrimSpace(SubSeq(addr, space + 2, Len(addr))), TypeAddress, "address")

\* the replacement function of a pass, applied to one match
TextHandler(pass, match, originalText) ==
  CASE pass = 1 -> Replace("", match, TypeEmail, "email")
    [] pass = 2 -> Replace("", match, TypePhone, "phone")
    [] pass = 3 -> processSSNMatch(match, originalText)
    [] pass = 4 -> Replace("", match, TypeCreditCard, "credit_card")
    [] pass = 5 -> processContextAddressMatch(match)
    [] pass = 8 -> processSpecialAddressPattern3Match(match)
    [] pass = 9 -> IF isAddressContext(match) THEN Keep(match)
                   ELSE Replace("", match, TypeName, "name")
    [] OTHER -> Replace("", match, TypeAddress, "address")

\* the positions <<b, e>> of the matches of a pass in src
TextMatches(pass, src) ==
  LET ms == FindAll(TextPattern(pass), src, 1)
  IN  [k \in 1..Len(ms) |-> <<ms[k].b, ms[k].e>>]

\* src with its matches ms replaced by repl, from match k and position pos on
RECURSIVE Splice(_, _, _, _, _)
Splice(src, ms, repl, k, pos) ==
  IF k > Len(ms) THEN SubSeq(src, pos, Len(src))
  ELSE SubSeq(src, pos, ms[k][1] - 1) \o repl[k] \o Splice(src, ms, repl, k + 1, ms[k][2])

\* Text from match k of a pass on, up to the next call of deidentifyValue
RECURSIVE TextScan(_, _, _, _, _, _)
TextScan(originalText, src, pass, ms, k, repl) ==
  IF pass > NumPasses THEN [next |-> "done", result |-> src]
  ELSE IF k > Len(ms)
  THEN LET result == Splice(src, ms, repl, 1, 1)
       IN  TextScan(originalText, result, pass + 1,
                    IF pass < NumPasses THEN TextMatches(pass + 1, result) ELSE <<>>, 1, <<>>)
  ELSE LET match == SubSeq(src, ms[k][1], ms[k][2] - 1)
           handler == TextHandler(pass, match, originalText)
       IN  IF handler.call
           THEN [next |-> "call", src |-> src, pass |-> pass, ms |-> ms, k |-> k,
                 repl |-> repl, handler |-> handler]
           ELSE TextScan(originalText, src, pass, ms, k + 1, Append(repl, handler.text))

\* where Text goes on; what it returns is kept with the number of passes it has run
TextGo(t, text, scan) ==
  IF scan.next = "done"
  THEN /\ ret' = [ret EXCEPT ![t] = [status |-> "ok", value |-> scan.result,
                                     args |-> [kind |-> "Text", text |-> text],
                                     passes |-> NumPasses]]
       /\ pc' = [pc EXCEPT ![t] = "idle"]
       /\ call' = [call EXCEPT ![t] = NoCall]
       /\ frame' = [frame EXCEPT ![t] = NoFrame]
  ELSE /\ ret' = [ret EXCEPT ![t] = NoRet]
       /\ pc' = [pc EXCEPT ![t] = "deidentifyValue"]
       /\ call' = [call EXCEPT ![t] =
                     [kind |-> "Text", text |-> text, src |-> scan.src, pass |-> scan.pass,
                      ms |-> scan.ms, k |-> scan.k, repl |-> scan.repl,
                      prefix |-> scan.handler.prefix]]
       /\ frame' = [frame EXCEPT ![t] =
                      EnterFrame(scan.handler.value, scan.handler.dataType,
                                 scan.handler.columnName)]

\* Text without the test for the empty text: the passes run on every text
TextWithoutEmptyCheck(t, text) ==
  /\ pc[t] = "idle"
  /\ calls < MaxCalls
  /\ calls' = calls + 1
  /\ TextGo(t, text, TextScan(text, text, 1, TextMatches(1, text), 1, <<>>))
  /\ UNCHANGED <<secretKey, mappingTables, mutex, retLog, genLog>>

\* Text identifies and deidentifies PII from a text string
Text(t, text) ==
  /\ pc[t] = "idle"
  /\ calls < MaxCalls
  /\ calls' = calls + 1
  /\ IF text = ""
     THEN /\ ret' = [ret EXCEPT ![t] = [status |-> "ok", value |-> "",
                                        args |-> [kind |-> "Text", text |-> text],
                                        passes |-> 0]]
          /\ UNCHANGED <<pc, call, frame>>
     ELSE TextGo(t, text, TextScan(text, text, 1, TextMatches(1, text), 1, <<>>))
  /\ UNCHANGED <<secretKey, mappingTables, mutex, retLog, genLog>>

\* Text: deidentifyValue has returned the replacement of match k of the pass
Text_replace(t) ==
  /\ pc[t] = "return"
  /\ call[t].kind = "Text"
  /\ retLog' = Returned(t)
  /\ TextGo(t, call[t].text,
            TextScan(call[t].text, call[t].src, call[t].pass, call[t].ms, call[t].k + 1,
                     Append(call[t].repl, call[t].prefix \o frame[t].result)))
  /\ UNCHANGED <<secretKey, calls, mappingTables, mutex, genLog>>

(***************************************************************************)
(* The calls the goroutines make.                                          *)
(***************************************************************************)
\* an e-mail address, the value the calls below share
Addr == "a@b.co"

EmailInputs == {Addr}

NameInputs == {""}

PhoneInputs == {""}

SSNInputs == {""}

CreditCardInputs == {""}

AddressInputs == {" HQ: "}

\* a column of e-mail addresses given the category of names, and one named differently
TableInputs ==
  {[Columns |-> <<[Name |-> "email", DataType |-> TypeName, Values |-> <<Addr>>]>>],
   [Columns |-> <<[Name |-> "contact", DataType |-> TypeEmail, Values |-> <<Nil, Addr>>]>>]}

\* a matrix of one cell, and one whose second row is longer than its first
SlicesInputs == {<<<<Addr>>>>, <<<<Addr>>, <<"", Addr>>>>}

TextInputs == {Addr}

\* an optional argument of Slices that is a []DataType, and one that is a []string
CategoryList(types) == [type |-> "[]DataType", val |-> types]

NameList(names) == [type |-> "[]string", val |-> names]

\* the matrices of the Slices calls: no row, one cell, a second row shorter than the
\* first with empty cells, and a second row longer than the first
SlicesData ==
  {<<>>, <<<<Addr>>>>, <<<<Addr, "">>, <<"">>>>, <<<<Addr>>, <<"", Addr>>>>}

\* the optional arguments of the Slices calls: none, category lists of 0 to 2 entries,
\* name lists of 0 to 2 entries, and values of other types in either place
SlicesOptionals ==
  <<<<>>,
    <<CategoryList(<<>>)>>,
    <<CategoryList(<<TypeEmail>>)>>,
    <<CategoryList(<<TypeEmail, TypeGeneric>>)>>,
    <<CategoryList(<<TypeEmail>>), NameList(<<>>)>>,
    <<CategoryList(<<TypeEmail>>), NameList(<<"email">>)>>,
    <<CategoryList(<<TypeEmail>>), NameList(<<"email", "note">>)>>,
    <<CategoryList(<<TypeEmail, TypeGeneric>>), NameList(<<"email", "note">>)>>,
    <<CategoryList(<<>>), NameList(<<"email">>)>>,
    <<[type |-> "string", val |-> "invalid"]>>,
    <<CategoryList(<<TypeEmail>>), [type |-> "int", val |-> 123]>>,
    <<NameList(<<"email">>)>> >>

vars == <<secretKey, mappingTables, mutex, calls, pc, call, frame, ret, retLog, genLog>>

\* NewDeidentifier creates a new deidentifier with a secret key
NewDeidentifier(key) ==
  /\ secretKey = key
  /\ mappingTables = <<>>
  /\ mutex = Unlocked

Init ==
  /\ NewDeidentifier("test-secret-key")
  /\ calls = 0
  /\ pc = [t \in Threads |-> "idle"]
  /\ call = [t \in Threads |-> NoCall]
  /\ frame = [t \in Threads |-> NoFrame]
  /\ ret = [t \in Threads |-> NoRet]
  /\ retLog = {}
  /\ genLog = {}

\* the steps inside deidentifyValue, getMapping, setMapping and ClearMappings
Step(t) ==
  \/ deidentifyValue(t)
  \/ getMapping_RLock(t)
  \/ getMapping(t)
  \/ generate(t)
  \/ setMapping_Lock(t)
  \/ setMapping(t)
  \/ ClearMappings_Lock(t)
  \/ ClearMappings_make(t)
  \/ Convenience_return(t)
  \/ Table_loop(t)
  \/ Slices_loop(t)
  \/ Text_replace(t)

Next ==
  \E t \in Threads :
    \/ Step(t)
    \/ ClearMappings(t)
    \/ \E cc \in CreditCardInputs : CreditCard(t, cc)
    \/ \E email \in EmailInputs : Email(t, email)
    \/ \E name \in NameInputs : Name(t, name)
    \/ \E phone \in PhoneInputs : Phone(t, phone)
    \/ \E ssn \in SSNInputs : SSN(t, ssn)
    \/ \E address \in AddressInputs : Address(t, address)
    \/ \E table \in TableInputs : Table(t, table)
    \/ \E data \in SlicesInputs : Slices(t, data, <<>>)
    \/ \E text \in TextInputs : Text(t, text)

Spec == Init /\ [][Next]_vars

\* The calls of Slices alone, with every matrix and every list of optional arguments,
\* made by one goroutine one after the other.
SlicesStep(t) ==
  \/ deidentifyValue(t)
  \/ getMapping_RLock(t)
  \/ getMapping(t)
  \/ generate(t)
  \/ setMapping_Lock(t)
  \/ setMapping(t)
  \/ Slices_loop(t)

SlicesNext ==
  \E t \in {1} :
    \/ SlicesStep(t)
    \/ \E data \in SlicesData : \E k \in DOMAIN SlicesOptionals :
         Slices(t, data, SlicesOptionals[k])

SlicesSpec == Init /\ [][SlicesNext]_vars


(***************************************************************************)
(* Properties of the mapping store and the generators.                     *)
(***************************************************************************)
\* C1: any two deidentifications of the same non-empty value under the same column name
\* or fixed label return the same replacement, whatever ran in between.
C1_SameReplacement ==
  \A a, b \in retLog : a[1] = b[1] /\ a[2] = b[2] => a[3] = b[3]

\* C2: the replacement generated for a value and a category under the one secret key is
\* the same in every generation, whatever the store held and whatever calls came before,
\* and a generation leaves the store as it is.
C2_GeneratorPure ==
  /\ [](\A a, b \in genLog : a[1] = b[1] /\ a[2] = b[2] => a[3] = b[3])
  /\ [][genLog' # genLog => mappingTables' = mappingTables]_vars

\* C2 happens: the same value and category were generated once with the store empty and
\* once with a mapping in it
C2_Witness ==
  \E a, b \in genLog : a[1] = b[1] /\ a[2] = b[2] /\ a[4] /\ ~b[4]

\* C3: the same value deidentified with the same category under two different column
\* names gets two different replacements.
C3_ContextsDiffer ==
  \A a, b \in retLog : a[2] = b[2] /\ a[4] = b[4] /\ a[1] # b[1] => a[3] # b[3]

\* the keys <<column name, original>> of a store
Keys(tables) == UNION {{<<n, o>> : o \in DOMAIN tables[n]} : n \in DOMAIN tables}

C5_RaceBenign ==
  \A t1, t2 \in Threads :
    /\ pc[t1] \in {"setMapping_Lock", "setMapping", "return"}
    /\ pc[t2] \in {"setMapping_Lock", "setMapping", "return"}
    /\ frame[t1].columnName = frame[t2].columnName
    /\ frame[t1].value = frame[t2].value /\ frame[t1].value # ""
    => frame[t1].result = frame[t2].result

\* C6: a call that has come to its end has returned, normally or with an error, and
\* its goroutine holds the mutex neither for reading nor for writing.
C6_EveryCallReturns ==
  \A t \in Threads :
    pc[t] = "idle" => /\ ret[t].status \in {"none", "ok", "error"}
                      /\ t \notin mutex.readers \cup mutex.writer

(***************************************************************************)
(* Properties of Slices.                                                   *)
(***************************************************************************)
\* goroutine t has come to the end of a call of Slices on a matrix of at least one row
SlicesEnded(t) ==
  ret[t].status # "none" /\ ret[t].args.kind = "Slices" /\ Len(ret[t].args.data) > 0

\* the first optional argument is no []DataType, or the second is no []string
BadOptional(optional) ==
  \/ Len(optional) > 0 /\ optional[1].type # "[]DataType"
  \/ Len(optional) > 1 /\ optional[2].type # "[]string"

\* C7: a call of Slices on a matrix of at least one row, given a category list or a name
\* list whose length is not the length of the first row, ends with the error of a schema
\* mismatch.
C7_MismatchIsError ==
  \A t \in Threads :
    SlicesEnded(t) /\ ~BadOptional(ret[t].args.optional)
      /\ (\E k \in 1..Len(ret[t].args.optional) :
            Len(ret[t].args.optional[k].val) # Len(ret[t].args.data[1]))
    => ret[t].status = "error" /\ ret[t].value \notin {ErrFirstOptional, ErrSecondOptional}

\* C8: a call of Slices on a matrix of at least one row with no category list or an empty
\* one, and with no name list, succeeds, and every cell that is not empty is returned as
\* the replacement generated under a category inferred for its column.
C8_InferredCallSucceeds ==
  \A t \in Threads :
    SlicesEnded(t) /\ ~BadOptional(ret[t].args.optional)
      /\ Len(ret[t].args.optional) < 2
      /\ (Len(ret[t].args.optional) = 0 \/ Len(ret[t].args.optional[1].val) = 0)
    => /\ ret[t].status = "ok"
       /\ \A i \in 1..Len(ret[t].args.data) : \A j \in 1..Len(ret[t].args.data[i]) :
            ret[t].args.data[i][j] # "" =>
              \E dataType \in inferSingleColumnType(ret[t].args.data, j) :
                ret[t].value[i][j] = Generate(ret[t].args.data[i][j], dataType)

\* C9: a call of Slices on a matrix of at least one row whose first optional argument is
\* no category list, or whose second is no name list, ends with the error of that
\* argument and returns no matrix.
C9_BadOptionalIsError ==
  \A t \in Threads :
    SlicesEnded(t) /\ BadOptional(ret[t].args.optional)
    => ret[t].status = "error" /\ ret[t].value \in {ErrFirstOptional, ErrSecondOptional}

\* C9 happens: a call with a category list first and a value that is no name list second
\* has ended with an error
C9_Witness ==
  \E t \in Threads :
    /\ SlicesEnded(t)
    /\ Len(ret[t].args.optional) = 2
    /\ ret[t].args.optional[1].type = "[]DataType"
    /\ ret[t].args.optional[2].type # "[]string"
    /\ ret[t].status = "error"

\* C10: a call of Slices on a matrix of at least one row whose schema passes validation
\* returns a matrix with as many rows, each row as long as the row given, and every empty
\* cell empty.
C10_SameShape ==
  \A t \in Threads :
    SlicesEnded(t)
      /\ (\E parsed \in parseSlicesParameters(ret[t].args.data, ret[t].args.optional) :
            parsed.err = "")
    => /\ ret[t].status = "ok"
       /\ Len(ret[t].value) = Len(ret[t].args.data)
       /\ \A i \in 1..Len(ret[t].args.data) :
            /\ Len(ret[t].value[i]) = Len(ret[t].args.data[i])
            /\ \A j \in 1..Len(ret[t].args.data[i]) :
                 ret[t].args.data[i][j] = "" => ret[t].value[i][j] = ""

(***************************************************************************)
(* Slices on a matrix of no rows.                                          *)
(***************************************************************************)
\* C11: a call of Slices on a matrix of no rows returns the empty matrix and no error
\* whatever its optional arguments are, and the step in which it is made and returns
\* leaves the mapping store, the mutex and the generations as they are.
C11_EmptyMatrix ==
  /\ [](\A t \in Threads :
          ret[t].status # "none" /\ ret[t].args.kind = "Slices" /\ Len(ret[t].args.data) = 0
          => ret[t].status = "ok" /\ ret[t].value = <<>>)
  /\ [][\A t \in Threads :
          /\ calls' = calls + 1
          /\ pc[t] = "idle" /\ pc'[t] = "idle"
          /\ ret'[t].status # "none"
          /\ ret'[t].args.kind = "Slices"
          /\ Len(ret'[t].args.data) = 0
          => UNCHANGED <<mappingTables, mutex, genLog, retLog>>]_vars

\* C11 happens: a call on a matrix of no rows with an optional argument of a wrong type
\* has returned while the store holds a mapping
C11_Witness ==
  \E t \in Threads :
    /\ ret[t].status = "ok"
    /\ ret[t].args.kind = "Slices"
    /\ Len(ret[t].args.data) = 0
    /\ BadOptional(ret[t].args.optional)
    /\ mappingTables # <<>>

(***************************************************************************)
(* Table alone: one goroutine that calls Table with tables of no column,   *)
(* of a column of no value, and of columns that hold nil, the empty string *)
(* and values, one of them twice.                                          *)
(***************************************************************************)
TableCases ==
  {[Columns |-> <<>>],
   [Columns |-> <<[Name |-> "note", DataType |-> TypeGeneric, Values |-> <<>>]>>],
   [Columns |-> <<[Name |-> "email", DataType |-> TypeEmail, Values |-> <<Nil, "", Addr>>]>>],
   [Columns |-> <<[Name |-> "name", DataType |-> TypeName, Values |-> <<"", Nil>>],
                  [Name |-> "email", DataType |-> TypeEmail, Values |-> <<Addr, Nil>>]>>],
   [Columns |-> <<[Name |-> "id", DataType |-> TypeGeneric, Values |-> <<"7", "", "7">>]>>],
   [Columns |-> <<[Name |-> "email", DataType |-> TypeName, Values |-> <<Addr>>],
                  [Name |-> "ssn", DataType |-> TypeSSN, Values |-> <<Nil, "1">>]>>]}

TableStep(t) ==
  \/ deidentifyValue(t)
  \/ getMapping_RLock(t)
  \/ getMapping(t)
  \/ generate(t)
  \/ setMapping_Lock(t)
  \/ setMapping(t)
  \/ Table_loop(t)

TableNext ==
  \E t \in {1} :
    \/ TableStep(t)
    \/ \E table \in TableCases : Table(t, table)

TableSpec == Init /\ [][TableNext]_vars

\* a call of Table has returned
TableEnded(t) == ret[t].status # "none" /\ ret[t].args.kind = "Table"

\* C12: a call of Table returns without an error a table of the columns given, in their
\* order, each with its name, its category and as many values; a value is nil where the
\* value given is nil and nowhere else, and is the empty string where the value given is
\* the empty string; no replacement is ever generated for nil or for the empty string and
\* the store never holds a mapping of either.
C12_TableShape ==
  /\ \A t \in Threads :
       TableEnded(t) =>
         /\ ret[t].status = "ok"
         /\ Len(ret[t].value.Columns) = Len(ret[t].args.table.Columns)
         /\ \A i \in 1..Len(ret[t].args.table.Columns) :
              /\ ret[t].value.Columns[i].Name = ret[t].args.table.Columns[i].Name
              /\ ret[t].value.Columns[i].DataType = ret[t].args.table.Columns[i].DataType
              /\ Len(ret[t].value.Columns[i].Values) = Len(ret[t].args.table.Columns[i].Values)
              /\ \A j \in 1..Len(ret[t].args.table.Columns[i].Values) :
                   /\ ret[t].value.Columns[i].Values[j] = Nil
                        <=> ret[t].args.table.Columns[i].Values[j] = Nil
                   /\ ret[t].args.table.Columns[i].Values[j] = ""
                        => ret[t].value.Columns[i].Values[j] = ""
  /\ \A g \in genLog : g[1] \notin {Nil, ""}
  /\ \A r \in retLog : r[2] \notin {Nil, ""}
  /\ \A columnName \in DOMAIN mappingTables :
       DOMAIN mappingTables[columnName] \cap {Nil, ""} = {}

\* C12 happens: a call on a column that holds nil, the empty string and an address has
\* returned, and the store holds the mapping of the address
C12_Witness ==
  \E t \in Threads :
    /\ TableEnded(t)
    /\ \E i \in 1..Len(ret[t].args.table.Columns) :
         {Nil, "", Addr} \subseteq
           {ret[t].args.table.Columns[i].Values[j] :
              j \in 1..Len(ret[t].args.table.Columns[i].Values)}
    /\ Lookup(mappingTables, "email", Addr) # ""

(***************************************************************************)
(* Text alone: one goroutine that calls Text with the empty text, with     *)
(* texts that hold one or two e-mail addresses and with a text that holds  *)
(* nothing to replace.                                                     *)
(***************************************************************************)
TextCases == {"", Addr, "c@d.io", "to " \o Addr, Addr \o " c@d.io", "x"}

TextStep(t) ==
  \/ deidentifyValue(t)
  \/ getMapping_RLock(t)
  \/ getMapping(t)
  \/ generate(t)
  \/ setMapping_Lock(t)
  \/ setMapping(t)
  \/ Text_replace(t)

TextNext ==
  \E t \in {1} :
    \/ TextStep(t)
    \/ \E text \in TextCases : Text(t, text)

TextSpec == Init /\ [][TextNext]_vars

\* C13: a call of Text on the empty text returns the empty text and no error after no
\* pass, and the step in which it is made and returns enters no deidentifyValue, takes
\* no lock and leaves the mapping store and the generations as they are.
C13_EmptyText ==
  /\ [](\A t \in Threads :
          ret[t].status # "none" /\ ret[t].args.kind = "Text" /\ ret[t].args.text = ""
          => ret[t].status = "ok" /\ ret[t].value = "" /\ ret[t].passes = 0)
  /\ [][\A t \in Threads :
          /\ calls' = calls + 1
          /\ pc[t] = "idle" /\ pc'[t] = "idle"
          /\ ret'[t].status # "none"
          /\ ret'[t].args.kind = "Text"
          /\ ret'[t].args.text = ""
          => UNCHANGED <<mappingTables, mutex, genLog, retLog, frame>>]_vars

\* C13 happens: a call on the empty text has returned while the store holds a mapping
C13_Witness ==
  \E t \in Threads :
    /\ ret[t].status = "ok"
    /\ ret[t].args.kind = "Text"
    /\ ret[t].args.text = ""
    /\ mappingTables # <<>>

(***************************************************************************)
(* The generators alone: one goroutine that calls SSN, CreditCard, Phone   *)
(* and Email.  The phone numbers come in every skeleton, without one and   *)
(* with text after the number; the second e-mail address selects the user  *)
(* name no-reply of the table.                                             *)
(***************************************************************************)
\* values whose SSN has the least and the greatest first segment (100, 664), second
\* segment (01, 99) and third segment (0001, 9999), and segments that need padding
SSNCases == {"1", "4", "39", "100", "350", "419", "2355", "11291", "123-45-6789"}

CreditCardCases == {"1", "4111111111111111", "4532-1234-5678-9012"}

PhoneCases ==
  {"555-123-4567", "(555) 123-4567", "+1 555.123.4567", "5551234567", "12345",
   "555-123-4567x"}

EmailCases == {Addr, "a@d.co"}

GeneratorStep(t) ==
  \/ deidentifyValue(t)
  \/ getMapping_RLock(t)
  \/ getMapping(t)
  \/ generate(t)
  \/ setMapping_Lock(t)
  \/ setMapping(t)
  \/ Convenience_return(t)

GeneratorNext ==
  \E t \in {1} :
    \/ GeneratorStep(t)
    \/ \E ssn \in SSNCases : SSN(t, ssn)
    \/ \E cc \in CreditCardCases : CreditCard(t, cc)
    \/ \E phone \in PhoneCases : Phone(t, phone)
    \/ \E email \in EmailCases : Email(t, email)

GeneratorSpec == Init /\ [][GeneratorNext]_vars

\* the number a string of decimal digits stands for
RECURSIVE DecimalValue(_)
DecimalValue(s) ==
  IF s = "" THEN 0
  ELSE DecimalValue(SubSeq(s, 1, Len(s) - 1)) * 10 + DigitValue(CharAt(s, Len(s)))

\* whether every character of s is in the set cs
AllIn(s, cs) == \A p \in 1..Len(s) : CharAt(s, p) \in cs

\* C14: every generated SSN is three digits, a hyphen, two digits, a hyphen and four
\* digits; the first segment is not 000, not 666 and below 900, the second is 01 to 99
\* and the third is 0001 to 9999.
C14_SSNForm ==
  \A g \in genLog :
    g[2] = TypeSSN =>
      /\ Len(g[3]) = 11
      /\ CharAt(g[3], 4) = "-" /\ CharAt(g[3], 7) = "-"
      /\ AllIn(SubSeq(g[3], 1, 3) \o SubSeq(g[3], 5, 6) \o SubSeq(g[3], 8, 11), DigitSet)
      /\ DecimalValue(SubSeq(g[3], 1, 3)) \in (1..899) \ {666}
      /\ DecimalValue(SubSeq(g[3], 5, 6)) \in 1..99
      /\ DecimalValue(SubSeq(g[3], 8, 11)) \in 1..9999

\* C14 happens: an SSN has been generated whose second and third segments are below 10
\* and below 1000
C14_Witness ==
  \E g \in genLog :
    /\ g[2] = TypeSSN
    /\ Len(g[3]) = 11
    /\ CharAt(g[3], 5) = "0"
    /\ CharAt(g[3], 8) = "0"

\* C15: every generated credit card number is four blocks of four digits with a space
\* between them, starts with 4000, and its 16 digits pass the Luhn check: the sum of the
\* digits, every second one from the last but one doubled and reduced, is a multiple of
\* 10, which makes the last digit the check digit of the 15 before it.
C15_CardForm ==
  \A g \in genLog :
    g[2] = TypeCreditCard =>
      /\ Len(g[3]) = 19
      /\ CharAt(g[3], 5) = " " /\ CharAt(g[3], 10) = " " /\ CharAt(g[3], 15) = " "
      /\ SubSeq(g[3], 1, 4) = "4000"
      /\ AllIn(RawDigits(g[3]), DigitSet) /\ Len(RawDigits(g[3])) = 16
      /\ LuhnSum(RawDigits(g[3]), 16, FALSE) % 10 = 0

\* C15 happens: two card numbers have been generated whose last digits differ
C15_Witness ==
  \E g, h \in genLog :
    /\ g[2] = TypeCreditCard /\ h[2] = TypeCreditCard
    /\ Len(g[3]) = 19 /\ Len(h[3]) = 19
    /\ CharAt(g[3], 19) # CharAt(h[3], 19)

\* the positions p1..p2-1 of a capturing group
Span(m, n) == m.c[n][1]..(m.c[n][2] - 1)

\* C16: a generated phone number whose original matches phoneFormatRegexPattern is the
\* original with nothing but the exchange and the subscriber number replaced, by three
\* digits that stand for 200 to 998 and four digits that stand for 1000 to 9998; for an
\* original that does not match it is DATA_ followed by 16 hexadecimal digits.
C16_PhoneKeepsSkeleton ==
  \A g \in genLog :
    g[2] = TypePhone =>
      Bind(FindFrom(phoneFormatRegexPattern, g[1], 1), LAMBDA m :
        IF m.b = 0
        THEN /\ Len(g[3]) = 21
             /\ SubSeq(g[3], 1, 5) = "DATA_"
             /\ AllIn(SubSeq(g[3], 6, 21), CharsOf(HexDigits))
        ELSE /\ Len(g[3]) = Len(g[1])
             /\ \A p \in (1..Len(g[1])) \ (Span(m, 5) \cup Span(m, 7)) :
                  CharAt(g[3], p) = CharAt(g[1], p)
             /\ AllIn(SubSeq(g[3], m.c[5][1], m.c[5][2] - 1), DigitSet)
             /\ AllIn(SubSeq(g[3], m.c[7][1], m.c[7][2] - 1), DigitSet)
             /\ DecimalValue(SubSeq(g[3], m.c[5][1], m.c[5][2] - 1)) \in 200..998
             /\ DecimalValue(SubSeq(g[3], m.c[7][1], m.c[7][2] - 1)) \in 1000..9998)

\* the part of s after its last dot (s itself if it has none)
RECURSIVE AfterLastDot(_)
AfterLastDot(s) ==
  IF StringsIndex(s, ".") < 0 THEN s
  ELSE AfterLastDot(SubSeq(s, StringsIndex(s, ".") + 2, Len(s)))

\* C17: a generated e-mail address is letters and digits that end in a digit, an @, and
\* a domain of letters, digits, dots and hyphens that ends in a dot and two letters or
\* more.
C17_EmailForm ==
  \A g \in genLog :
    g[2] = TypeEmail =>
      Bind(StringsIndex(g[3], "@"), LAMBDA at :
        /\ at >= 2
        /\ AllIn(SubSeq(g[3], 1, at), LetterSet \cup DigitSet)
        /\ CharAt(g[3], at) \in DigitSet
        /\ Bind(SubSeq(g[3], at + 2, Len(g[3])), LAMBDA domain :
             /\ AllIn(domain, LetterSet \cup DigitSet \cup {".", "-"})
             /\ Len(AfterLastDot(domain)) >= 2
             /\ Len(AfterLastDot(domain)) < Len(domain) - 1
             /\ AllIn(AfterLastDot(domain), LetterSet)))

(***************************************************************************)
(* The mapping store and its lock.                                         *)
(***************************************************************************)
\* C18: the state of the Deidentifier holds no value it was given: no value that a
\* deidentifyValue call has replaced is the secret key or a key or a value of the store.
C18_NoOriginalRetained ==
  \A r \in retLog :
    /\ r[2] # secretKey
    /\ \A columnName \in DOMAIN mappingTables :
         /\ r[2] \notin DOMAIN mappingTables[columnName]
         /\ \A original \in DOMAIN mappingTables[columnName] :
              mappingTables[columnName][original] # r[2]

\* C19: the step of ClearMappings that makes the new map leaves the store with no field
\* context and no entry: a lookup of any key the store held misses.
C19_ResetEmpties ==
  [][\A t \in Threads :
       pc[t] = "ClearMappings_make" /\ pc'[t] # "ClearMappings_make" =>
         /\ DOMAIN mappingTables' = {}
         /\ \A columnName \in DOMAIN mappingTables :
              \A original \in DOMAIN mappingTables[columnName] :
                Lookup(mappingTables', columnName, original) = ""]_vars

\* C19 happens: ClearMappings has returned after a value was replaced and stored, and the
\* store is empty
C19_Witness ==
  \E t \in Threads :
    /\ ret[t].status = "ok"
    /\ ret[t].args.kind = "ClearMappings"
    /\ retLog # {}
    /\ DOMAIN mappingTables = {}

\* C20: a goroutine is at the lookup of getMapping exactly while it holds the mutex for
\* reading, and at the assignment of setMapping or of ClearMappings exactly while it
\* holds it for writing, so that it holds nothing while it generates; there is at most
\* one writer, and no reader while there is one; the store changes in no step but the
\* writer's, and the writer's next step is the assignment, with which it gives the
\* mutex back.
C20_LockDiscipline ==
  /\ [](/\ Cardinality(mutex.writer) <= 1
        /\ mutex.writer # {} => mutex.readers = {}
        /\ \A t \in Threads :
             /\ pc[t] = "getMapping" <=> t \in mutex.readers
             /\ pc[t] \in {"setMapping", "ClearMappings_make"} <=> t \in mutex.writer)
  /\ [][/\ ~(UNCHANGED mappingTables) => \E t \in mutex.writer : pc'[t] # pc[t]
        /\ \A t \in mutex.writer : pc'[t] # pc[t] => mutex'.writer = {}]_vars

\* C20 happens: two lookups overlap
C20_Witness == Cardinality(mutex.readers) >= 2

(***************************************************************************)
(* The passes of Text: one goroutine that calls Text with a bare phone     *)
(* number, social security numbers with and without hyphens, a name next   *)
(* to an e-mail address and an address after "lives at".                   *)
(***************************************************************************)
PassCases == {"5551234567", "123-45-6789", "123456789", "Al Bo " \o Addr, "lives at 1 A St"}

PassNext ==
  \E t \in {1} :
    \/ TextStep(t)
    \/ \E text \in PassCases : Text(t, text)

PassSpec == Init /\ [][PassNext]_vars

\* the expression a pass looks for, by its place in the order
PassExpression(pass) ==
  CASE pass = 1 -> emailRegexPattern
    [] pass = 2 -> phoneRegexPattern
    [] pass = 3 -> ssnRegexPattern
    [] pass = 4 -> creditCardRegexPattern
    [] pass = 5 -> contextAddressPattern
    [] pass = 6 -> specialAddressPattern1
    [] pass = 7 -> specialAddressPattern2
    [] pass = 8 -> specialAddressPattern3
    [] pass = 9 -> nameRegexPattern
    [] pass = 10 -> addressRegexPattern

\* the field context a pass replaces under, by its place in the order
PassContext(pass) ==
  CASE pass = 1 -> "email"
    [] pass = 2 -> "phone"
    [] pass = 3 -> "ssn"
    [] pass = 4 -> "credit_card"
    [] pass = 9 -> "name"
    [] pass \in {5, 6, 7, 8, 10} -> "address"

\* match j of the pass a call of Text is in
PassMatch(t, j) == SubSeq(call[t].src, call[t].ms[j][1], call[t].ms[j][2] - 1)

\* the text the pass a call of Text is in leaves, when deidentifyValue has returned the
\* replacement of the last match it replaces
AfterPass(t) ==
  Splice(call[t].src, call[t].ms,
         Append(call[t].repl, call[t].prefix \o frame[t].result)
           \o [j \in 1..(Len(call[t].ms) - call[t].k) |-> PassMatch(t, call[t].k + j)],
         1, 1)

\* C21: Text runs its passes in the order Email, Phone, SSN, CreditCard, addresses after
\* a context, the three special address forms, Name, standard address.  The span a pass
\* replaces is a match of its expression in the text the pass started from; the first
\* pass that replaces something starts from the text given; a later pass starts from
\* what the pass before it left when all its matches were dealt with, and Text returns
\* what the last pass leaves.
C21_PassOrder ==
  /\ [](\A t \in Threads :
          call[t].kind = "Text" =>
            /\ call[t].pass \in 1..10
            /\ call[t].k \in 1..Len(call[t].ms)
            /\ frame[t].columnName = PassContext(call[t].pass)
            /\ call[t].ms = TextMatches(call[t].pass, call[t].src)
            /\ Bind(FindFrom(PassExpression(call[t].pass), PassMatch(t, call[t].k), 1),
                    LAMBDA m : m.b = 1 /\ m.e = Len(PassMatch(t, call[t].k)) + 1))
  /\ [][\A t \in Threads :
          /\ (pc[t] = "idle" /\ call'[t].kind = "Text" => call'[t].src = call'[t].text)
          /\ (pc[t] = "return" /\ call[t].kind = "Text" /\ call'[t].kind = "Text" =>
                \/ /\ call'[t].pass = call[t].pass
                   /\ call'[t].src = call[t].src
                   /\ call'[t].k > call[t].k
                \/ /\ call'[t].pass > call[t].pass
                   /\ call'[t].src = AfterPass(t))
          /\ (pc[t] = "return" /\ call[t].kind = "Text" /\ call'[t].kind = "none" =>
                ret'[t].value = AfterPass(t))]_vars

\* C21 happens: the name pass runs on a text in which the e-mail pass has replaced an
\* address
C21_Witness ==
  \E t \in Threads :
    /\ call[t].kind = "Text"
    /\ call[t].pass = 9
    /\ call[t].text = "Al Bo " \o Addr
    /\ call[t].src # call[t].text

\* the condition under which a span of the SSN pass is replaced: it has a hyphen or a
\* space, or the text given to Text has an SSN keyword, or it has exactly nine digits
SSNCondition(span, text) ==
  \/ \E p \in 1..Len(span) : CharAt(span, p) \in {"-", " "}
  \/ MatchString(Alt(<<LitI("ssn"), LitI("social security")>>), text)
  \/ Cardinality({p \in 1..Len(span) : CharAt(span, p) \in DigitSet}) = 9

\* the spans of src that match the SSN number pattern and meet the condition
SSNSpans(src, text) ==
  {span \in {SubSeq(src, m[1], m[2] - 1) : m \in {TextMatches(3, src)[j] :
                                                   j \in DOMAIN TextMatches(3, src)}} :
     SSNCondition(span, text)}

\* C23: in the SSN pass of Text a span that matches the SSN number pattern is replaced,
\* as an SSN under the field context ssn, if and only if it has a hyphen or a space, or
\* the text given has an SSN keyword, or it has exactly nine digits; the other spans are
\* left as they are.  No span that meets the condition is passed over: the pass is left
\* only when none of the spans that remain meets it, and it is skipped only when the text
\* that reaches it has none.
C23_SSNCondition ==
  /\ [](\A t \in Threads :
          call[t].kind = "Text" /\ call[t].pass = 3 =>
            /\ SSNCondition(PassMatch(t, call[t].k), call[t].text)
            /\ frame[t].value = PassMatch(t, call[t].k)
            /\ frame[t].dataType = TypeSSN
            /\ frame[t].columnName = "ssn"
            /\ \A j \in 1..(call[t].k - 1) :
                 IF SSNCondition(PassMatch(t, j), call[t].text)
                 THEN <<"ssn", PassMatch(t, j), call[t].repl[j], TypeSSN>> \in retLog
                 ELSE call[t].repl[j] = PassMatch(t, j))
  /\ [][\A t \in Threads :
          /\ (/\ pc[t] = "return" /\ call[t].kind = "Text" /\ call[t].pass = 3
              /\ (call'[t].kind # "Text" \/ call'[t].pass > 3)
              => \A j \in (call[t].k + 1)..Len(call[t].ms) :
                   ~SSNCondition(PassMatch(t, j), call[t].text))
          /\ (/\ pc[t] = "return" /\ call[t].kind = "Text" /\ call[t].pass < 3
              /\ (call'[t].kind # "Text" \/ call'[t].pass > 3)
              => SSNSpans(AfterPass(t), call[t].text) = {})
          /\ (/\ pc[t] = "idle" /\ call'[t].kind = "Text" /\ call'[t].pass > 3
              => SSNSpans(call'[t].text, call'[t].text) = {})
          /\ (/\ pc[t] = "idle" /\ pc'[t] = "idle" /\ calls' = calls + 1
              /\ ret'[t].status = "ok" /\ ret'[t].args.kind = "Text"
              => SSNSpans(ret'[t].args.text, ret'[t].args.text) = {})]_vars

\* C23 happens: the SSN pass replaces a span of nine digits without a hyphen, a space or
\* a keyword
C23_Witness ==
  \E t \in Threads :
    /\ call[t].kind = "Text"
    /\ call[t].pass = 3
    /\ call[t].text = "123456789"
    /\ frame[t].value = "123456789"
    /\ frame[t].result # ""

\* whether sub occurs in s
Occurs(sub, s) ==
  \E p \in 1..(Len(s) - Len(sub) + 1) : SubSeq(s, p, p + Len(sub) - 1) = sub

\* C30: no pass of Text matches what an earlier pass has written: the span a pass
\* replaces is made of characters of the text given, so it occurs in that text.
C30_NoRematch ==
  \A t \in Threads :
    call[t].kind = "Text" => Occurs(PassMatch(t, call[t].k), call[t].text)

(***************************************************************************)
(* Type inference alone: one goroutine that calls Slices without a schema.  *)
(* The matrices hold a column of ten bare digits, which are a phone number *)
(* and hold a social security number; a column whose eleventh row is the   *)
(* only e-mail address; a column of two names and an e-mail address; a     *)
(* column without a value next to one that is half e-mail addresses; and a *)
(* column that is a third e-mail addresses next to one that is two thirds  *)
(* names.                                                                  *)
(***************************************************************************)
InferData ==
  {<<<<"5551234567">>>>,
   <<<<"x">>, <<"">>, <<"">>, <<"">>, <<"">>, <<"">>, <<"">>, <<"">>, <<"">>, <<"">>,
     <<Addr>>>>,
   <<<<"Al Bo">>, <<"Al Bo">>, <<Addr>>>>,
   <<<<" ", Addr>>, <<"", "x">>>>,
   <<<<Addr, "Al Bo">>, <<"x", "x">>, <<"y", "Al Bo">>>>}

InferNext ==
  \E t \in {1} :
    \/ SlicesStep(t)
    \/ \E data \in InferData : Slices(t, data, <<>>)

InferSpec == Init /\ [][InferNext]_vars

\* a call of Slices without a schema is under way
Inferring(t) == call[t].kind = "Slices" /\ Len(call[t].args.optional) = 0

\* the sampled cells of a column that are not empty and not white space only
SampledCells(data, col) ==
  {row \in 1..Len(data) :
     row <= 10 /\ col <= Len(data[row]) /\ TrimSpace(data[row][col]) # ""}

\* the accumulated score of a category: 10 for every sampled cell that is a hit, 5 for Name
Score(data, col, dataType) ==
  (IF dataType = TypeName THEN 5 ELSE 10)
    * Cardinality({row \in SampledCells(data, col) :
                     scoreValue(TrimSpace(data[row][col]), dataType) > 0})

\* the score a category has to reach: 5 for every sampled cell, 3 for Name
Threshold(data, col, dataType) ==
  (IF dataType = TypeName THEN 3 ELSE 5) * Cardinality(SampledCells(data, col))

\* the category has the highest score of the column
Highest(data, col, dataType) ==
  \A other \in DataTypes : Score(data, col, other) <= Score(data, col, dataType)

\* C22: type inference gives a column a category other than Generic only if that category
\* has the highest score of the column and the score reaches its threshold, and Generic
\* only if no sampled cell is non-empty or a category with the highest score stays below
\* its threshold.
C22_Thresholds ==
  \A t \in Threads :
    Inferring(t) =>
      /\ Len(call[t].config.columnTypes) = Len(call[t].data[1])
      /\ \A col \in 1..Len(call[t].data[1]) :
           IF call[t].config.columnTypes[col] # TypeGeneric
           THEN /\ Score(call[t].data, col, call[t].config.columnTypes[col]) > 0
                /\ Highest(call[t].data, col, call[t].config.columnTypes[col])
                /\ Score(call[t].data, col, call[t].config.columnTypes[col])
                     >= Threshold(call[t].data, col, call[t].config.columnTypes[col])
           ELSE \/ SampledCells(call[t].data, col) = {}
                \/ \E dataType \in DataTypes :
                     /\ Highest(call[t].data, col, dataType)
                     /\ Score(call[t].data, col, dataType)
                          < Threshold(call[t].data, col, dataType)

\* C22 happens: a call has a column of e-mail addresses below the threshold, which is
\* Generic, next to a column of names above theirs, which is Name
C22_Witness ==
  \E t \in Threads :
    /\ Inferring(t)
    /\ Len(call[t].config.columnTypes) = 2
    /\ call[t].config.columnTypes = <<TypeGeneric, TypeName>>
    /\ Score(call[t].data, 1, TypeEmail) = 10
    /\ Score(call[t].data, 2, TypeName) = 10

\* the sample of a matrix: its first ten rows, with the cells that are white space only
\* emptied
Sample(data) ==
  [row \in 1..Min(Len(data), 10) |->
     [col \in 1..Len(data[row]) |->
        IF TrimSpace(data[row][col]) = "" THEN "" ELSE data[row][col]]]

\* C25: the categories inferred for a matrix are categories inferred for its first ten
\* rows with the cells that are white space only emptied: the rows after the tenth and
\* the white space of such cells do not bear on them.
C25_FirstTenRows ==
  \A t \in Threads :
    Inferring(t) => call[t].config.columnTypes \in inferColumnTypes(Sample(call[t].data))

\* C25 happens: a call has a column whose first ten rows hold nothing that is an e-mail
\* address and whose eleventh row is one, and the column is Generic
C25_Witness ==
  \E t \in Threads :
    /\ Inferring(t)
    /\ Len(call[t].data) > 10
    /\ call[t].data[11] = <<Addr>>
    /\ call[t].config.columnTypes = <<TypeGeneric>>

(***************************************************************************)
(* Two goroutines that call Slices without a schema on the matrices in     *)
(* which two categories have the highest score of a column.                *)
(***************************************************************************)
TieData == {<<<<"5551234567">>>>, <<<<"Al Bo">>, <<"Al Bo">>, <<Addr>>>>}

TieNext ==
  \E t \in Threads :
    \/ SlicesStep(t)
    \/ \E data \in TieData : Slices(t, data, <<>>)

TieSpec == Init /\ [][TieNext]_vars

\* C27: two calls of Slices without a schema on the same matrix work with the same
\* categories, also when several categories have the highest score of a column.
C27_InferenceDeterministic ==
  \A t, u \in Threads :
    Inferring(t) /\ Inferring(u) /\ call[t].data = call[u].data
    => call[t].config.columnTypes = call[u].config.columnTypes

(***************************************************************************)
(* Properties of the mapping store under concurrent calls.                 *)
(***************************************************************************)
\* C24: no step but the one of ClearMappings that makes the new map removes an entry of
\* the store or gives its key another value.
C24_EntryLives ==
  [][\/ \E t \in Threads : pc[t] = "ClearMappings_make" /\ pc'[t] = "idle"
     \/ \A columnName \in DOMAIN mappingTables :
          \A original \in DOMAIN mappingTables[columnName] :
            Lookup(mappingTables', columnName, original)
              = mappingTables[columnName][original]]_vars

\* no step but the one of ClearMappings removes a key of the store
NoEntryRemoved ==
  [][\/ \E t \in Threads : pc[t] = "ClearMappings_make" /\ pc'[t] = "idle"
     \/ \A columnName \in DOMAIN mappingTables :
          /\ columnName \in DOMAIN mappingTables'
          /\ DOMAIN mappingTables[columnName] \subseteq DOMAIN mappingTables'[columnName]]_vars

\* C26: a lookup that finds a mapping for the column name and the value makes it the
\* result of deidentifyValue, whatever category the call asks for: the step goes on to
\* the return with the stored replacement and neither generates nor stores anything.
C26_HitIgnoresCategory ==
  [][\A t \in Threads :
       /\ pc[t] = "getMapping" /\ pc'[t] # "getMapping"
       /\ Lookup(mappingTables, frame[t].columnName, frame[t].value) # ""
       => /\ pc'[t] = "return"
          /\ frame'[t].result = Lookup(mappingTables, frame[t].columnName, frame[t].value)
          /\ frame'[t].dataType = frame[t].dataType
          /\ UNCHANGED <<mappingTables, genLog>>]_vars

\* C26 happens: deidentifyValue returns a replacement that was generated for another
\* category, and nothing has been generated for the value and the category of the call
C26_Witness ==
  \E t \in Threads :
    /\ pc[t] = "return"
    /\ frame[t].result # ""
    /\ \E g \in genLog :
         g[1] = frame[t].value /\ g[3] = frame[t].result /\ g[2] # frame[t].dataType
    /\ \A g \in genLog : ~(g[1] = frame[t].value /\ g[2] = frame[t].dataType)

\* C28: a call of Slices that returns an error returns it in the step in which it is
\* made, before any cell is deidentified: the step leaves the mapping store, the mutex
\* and the histories of generations and replacements as they are, and no call that has
\* deidentified a cell ends with an error.
C28_ErrorLeavesStore ==
  [][\A t \in Threads :
       /\ (/\ pc[t] = "idle" /\ pc'[t] = "idle" /\ calls' = calls + 1
           /\ ret'[t].status = "error"
           /\ ret'[t].args.kind = "Slices"
           => UNCHANGED <<mappingTables, mutex, genLog, retLog, frame>>)
       /\ (call[t].kind = "Slices" => ret'[t].status # "error")]_vars

\* C28 happens: a call of Slices has returned an error while the store holds a mapping
C28_Witness ==
  \E t \in Threads :
    /\ ret[t].status = "error"
    /\ ret[t].args.kind = "Slices"
    /\ mappingTables # <<>>

(***************************************************************************)
(* Calls around a reset: one goroutine that has called Email with an       *)
(* address and then Table with the same address in a column named email    *)
(* of category Name, and now calls ClearMappings, Email, Name and Table.   *)
(* calls counts the calls made from this state on.                         *)
(***************************************************************************)
ResetTable == [Columns |-> <<[Name |-> "email", DataType |-> TypeName, Values |-> <<Addr>>]>>]

\* the state after Email(Addr) and Table(ResetTable) have returned: the lookup of Table
\* has found the mapping of Email
ResetInit ==
  /\ secretKey = "test-secret-key"
  /\ mappingTables = Store(<<>>, "email", Addr, Generate(Addr, TypeEmail))
  /\ mutex = Unlocked
  /\ calls = 0
  /\ pc = [t \in Threads |-> "idle"]
  /\ call = [t \in Threads |-> NoCall]
  /\ frame = [t \in Threads |-> NoFrame]
  /\ ret = [t \in Threads |->
              IF t = 1
              THEN [status |-> "ok",
                    value |-> TableResult(ResetTable, <<<<Generate(Addr, TypeEmail)>>>>),
                    args |-> [kind |-> "Table", table |-> ResetTable]]
              ELSE NoRet]
  /\ retLog = {<<"email", Addr, Generate(Addr, TypeEmail), TypeEmail>>,
               <<"email", Addr, Generate(Addr, TypeEmail), TypeName>>}
  /\ genLog = {<<Addr, TypeEmail, Generate(Addr, TypeEmail), TRUE>>}

ResetStep(t) ==
  \/ deidentifyValue(t)
  \/ getMapping_RLock(t)
  \/ getMapping(t)
  \/ generate(t)
  \/ setMapping_Lock(t)
  \/ setMapping(t)
  \/ ClearMappings_Lock(t)
  \/ ClearMappings_make(t)
  \/ Convenience_return(t)
  \/ Table_loop(t)

ResetNext ==
  \E t \in {1} :
    \/ ResetStep(t)
    \/ ClearMappings(t)
    \/ \E email \in {Addr, "c@d.io"} : Email(t, email)
    \/ Name(t, "Al Bo")
    \/ Table(t, ResetTable)

ResetSpec == ResetInit /\ [][ResetNext]_vars

\* the state ResetSpec starts from, as the main specification reaches it
ResetInitReached ==
  /\ mappingTables = Store(<<>>, "email", Addr, Generate(Addr, TypeEmail))
  /\ retLog = {<<"email", Addr, Generate(Addr, TypeEmail), TypeEmail>>,
               <<"email", Addr, Generate(Addr, TypeEmail), TypeName>>}
  /\ genLog = {<<Addr, TypeEmail, Generate(Addr, TypeEmail), TRUE>>}
  /\ pc[1] = "idle" /\ pc[2] = "idle"
  /\ mutex = Unlocked
  /\ ret[1].status = "ok" /\ ret[1].args.kind = "Table"
  /\ ret[1].value = TableResult(ResetTable, <<<<Generate(Addr, TypeEmail)>>>>)
  /\ ret[2].status = "none"

\* C29: a call that finds no mapping for its column name and value, as after a reset,
\* generates the replacement that every earlier call with the same column name, value and
\* category returned, and stores it as the mapping of the column name and the value.
C29_ResetKeepsResults ==
  [][\A t \in Threads :
       /\ (pc[t] = "generate" /\ pc'[t] # "generate" =>
             \A r \in retLog :
               r[1] = frame[t].columnName /\ r[2] = frame[t].value
               /\ r[4] = frame[t].dataType
               => r[3] = frame'[t].result)
       /\ (pc[t] = "setMapping" /\ pc'[t] # "setMapping" =>
             \A r \in retLog :
               r[1] = frame[t].columnName /\ r[2] = frame[t].value
               /\ r[4] = frame[t].dataType
               => r[3] = Lookup(mappingTables', frame[t].columnName, frame[t].value))]_vars
=============================================================================
